---- MODULE Spec2Model ----
(***************************************************************************)
(* Model of the split-synchronizer core:                                   *)
(*   - the impression drain of producer/worker/impression.go               *)
(*     (SynchronizeImpressions / FlushImpressions and the operation gate), *)
(*   - the proxy split storage of proxy/storage/splits.go                  *)
(*     (Update / ChangesSince over the mirror and the recipe cache, and    *)
(*     the other writers KillLocally / SetChangeNumber / Remove),          *)
(*   - the /splitChanges handler of proxy/controllers/sdk.go,              *)
(*   - one drain pass of impression.go in detail (deduplication, grouping  *)
(*     by metadata, POST attempts and telemetry).                          *)
(*   - the endpoint telemetry of proxy/controllers.go (time slices, the    *)
(*     report, newForResource beside IncrEndpointStatus),                  *)
(*   - the segment deltas, the event task, the impression listener,        *)
(*     Update under contention, stats.LatencyStorage and the latency       *)
(*     middleware.                                                         *)
(***************************************************************************)
EXTENDS Integers, Sequences, FiniteSets, TLC

(***************************************************************************)
(* Bounds of the model.                                                    *)
(***************************************************************************)
\* number of impressions the producers enqueue in one behaviour
MaxImps == 3
\* splitio.DefaultSize, scaled down: the largest bulk of one drain pass
DefaultSize == 2
\* splitio.MaxSizeToFlush, scaled down: the default flush budget
MaxSizeToFlush == 3

\* change numbers of updates and splits range over 1..MaxCN
MaxCN == 3

\* number of /splitChanges requests served in one behaviour
MaxRequests == 2

\* number of recorded calls the sync engine makes on the storage
MaxCalls == 2

\* number of impressions stored for the detailed drain pass
MaxStored == 3
\* largest bulkSize of a detailed drain pass
MaxBulk == 3
\* commonToolkit.WithAttempts(3, ...)
Attempts == 3

SyncProcs == {"s1"}
FlushProcs == {"f1", "f2"}
Procs == SyncProcs \cup FlushProcs
BulkSizes == 0..MaxSizeToFlush
NoProc == "none"

VARIABLES
    impressionsRunning, \* task: the flag of ImpressionsOperation in the gate
    gateOwner,          \* ghost: the call that acquired the gate, or NoProc
    queue,              \* impressionStorage: the queued impressions, oldest first
    nextImp,            \* next impression id a producer enqueues
    posted,             \* impressions handed to impressionRecorder.Record
    pc,                 \* position of each call
    bulk,               \* bulkSize argument of the running synchronizeImpressions
    elementsToFlush,    \* FlushImpressions' local elementsToFlush
    held,               \* impressions popped by fetch, not yet recorded
    result,             \* what the call returned: "none", "nil", "busy", "error"
    popped,             \* ghost: impressions popped by the current call
    recordCalls,        \* ghost: batches the current call handed to Record
    sawRunning,         \* ghost: what the gate query of the call answered
    blockedBy           \* ghost: who held the gate when the call was denied

impVars == <<impressionsRunning, gateOwner, queue, nextImp, posted, pc, bulk,
             elementsToFlush, held, result, popped, recordCalls, sawRunning,
             blockedBy>>

VARIABLES
    snapshotData,   \* snapshot (mirror): split name -> stored split, or NoSplit
    snapshotTill,   \* snapshot (mirror): the storage change number
    recipes,        \* recipes: retained recipes, oldest first
    recipeFloor,    \* recipes: change number of the newest evicted recipe, or -1
    disk,           \* disk: split name -> last item added to the collection
    mtx,            \* p.mtx: the Update call holding it, or NoProc
    upc,            \* position of each Update call
    uargs,          \* arguments of the Update call in progress
    increasing,     \* ghost: every Update so far raised the change number
    highest,        \* ghost: greatest changeNumber passed to Update so far
    removedAt,      \* ghost: name -> changeNumber of the Update that removed
                    \*        it after it had been added (0: not so removed)
    upre,           \* ghost: mirror and till just before the Update in progress
    rpc,            \* position of the ChangesSince call
    rsince,         \* its since argument
    rtill,          \* the till it has read
    rsummary,       \* the change summary it has fetched
    rseen,          \* ghost: name -> changeNumber of the Update whose recipe
                    \*        gave the reader that name (0: not given)
    rresult,        \* what it returned
    roverlap,       \* ghost: an Update wrote to the storage during the call
    rcands          \* ghost: what the call returns when run before or after

storeVars == <<snapshotData, snapshotTill, recipes, recipeFloor, disk, mtx, upc,
               uargs, increasing, highest, removedAt, upre, rpc, rsince, rtill,
               rsummary, rseen, rresult, roverlap, rcands>>

VARIABLES
    hpc,            \* position of the SplitChanges handler
    hsince,         \* the since it parsed from the query
    herr,           \* error of proxySplitStorage.ChangesSince: "nil",
                    \* "notcached" (ErrSummaryNotCached) or "other"
    hsplits,        \* the payload fetchSplitChangesSince holds
    hret,           \* what fetchSplitChangesSince returned: "ok" or "error"
    fetchCalls,     \* since of each fetcher.Fetch call of this request
    registered,     \* payloads given to RegisterOlderCn in this request
    hstatus,        \* HTTP status written
    hbody,          \* payload written
    statusCount,    \* telemetry.IncrEndpointStatus(SplitChangesEndpoint, _)
    served          \* requests answered so far

sdkVars == <<hpc, hsince, herr, hsplits, hret, fetchCalls, registered, hstatus,
             hbody, statusCount, served>>

VARIABLES
    snapshotKilled, \* mirror: the names of the splits killed in place
    lastCall,       \* ghost: the last call made on the storage
    observed,       \* ghost: greatest changeNumber of a split passed to Update
    calls           \* ghost: number of recorded calls made so far

opVars == <<snapshotKilled, lastCall, observed, calls>>

VARIABLES
    dmode,          \* managerConfig.ImpressionsMode: "optimized" or "debug"
    dqueue,         \* impressionStorage: the stored impressions, oldest first
    dstored,        \* number of impressions stored so far
    dpc,            \* position of synchronizeImpressions
    dbulk,          \* its bulkSize
    observerSeen,   \* impressionManager: fingerprints the observer has seen
    impCounter,     \* impressionsCounter: count per feature, one time frame
    dbatches,       \* impressionsToSend: metadata -> impressions to post
    dpending,       \* metadatas recordImpressions has still to range over
    dcur,           \* the metadata of the running loop iteration
    dattemptsLeft,  \* WithAttempts: attempts left for the running iteration
    dcalls,         \* the Record calls of this pass, in order
    dtelemetry,     \* the localTelemetry calls of this pass, in order
    dresult,        \* what synchronizeImpressions returned
    dfwd,           \* ghost: impressions ProcessImpressions forwarded, this pass
    dseenN,         \* ghost: impressions processed so far, per fingerprint
    dfwdN           \* ghost: impressions forwarded so far, per fingerprint

drainVars == <<dmode, dqueue, dstored, dpc, dbulk, observerSeen, impCounter,
               dbatches, dpending, dcur, dattemptsLeft, dcalls, dtelemetry,
               dresult, dfwd, dseenN, dfwdN>>

\* ---- endpoint telemetry: the state of TimeslicedProxyEndpointTelemetryImpl ----
VARIABLES
    globalLatencies,       \* the wrapped facade: latencies recorded per endpoint
    globalStatusCodes,     \* the wrapped facade: status codes counted per endpoint
    telemetryByTimeSlice,  \* the map time slice -> *timeSliceTelemetry
    tpc,                   \* where each caller is: "idle", "latency", "status"
    tobs,                  \* the observation a caller is recording
    tdetached,             \* the bucket a caller holds is no longer in the map
    recordedKeys,          \* every key geHistoricForTS was asked for so far
    tcount,                \* number of observations started
    treported,             \* a report was returned since the last observation
    treport                \* the TimeSliceData returned by that report

telVars == <<globalLatencies, globalStatusCodes, telemetryByTimeSlice, tpc, tobs,
             tdetached, recordedKeys, tcount, treported, treport>>

\* ---- keyForTimeSlice on its own: the last call and its result ----
VARIABLES
    ktime,   \* t.Unix() of the call
    kwidth,  \* intervalWidthInSeconds of the call
    kkey     \* the key returned

keyVars == <<ktime, kwidth, kkey>>

\* ---- fetchSegmentsFromDB: the last call and what it returned ----
VARIABLES
    segSince,   \* since of the call
    segItem,    \* item.Keys of the segment, nil when Fetch failed
    segResult   \* added, removed, till and err returned

segVars == <<segSince, segItem, segResult>>

\* ---- the events task: taskPostEvents and the storage it pops from ----
VARIABLES
    evQueue,    \* the event storage, oldest first
    evPushed,   \* events stored so far
    epc,        \* "idle" or "posting"
    evPopped,   \* what PopN returned to the last run
    toSend,     \* the groups of the run still to post
    evPosts     \* the Post calls of the last run, in order

evVars == <<evQueue, evPushed, epc, evPopped, toSend, evPosts>>

\* ---- what a request handler of the sdk-server controller sent ----
VARIABLES
    hcall,     \* the handler that ran and whether its lookup failed
    hwritten,  \* status of each ctx.JSON call of the request, in order
    hcounted   \* status of each telemetry.IncrEndpointStatus call of the request

respVars == <<hcall, hwritten, hcounted>>

\* ---- synchronizeImpressions and the impression listener ----
VARIABLES
    impressionListenerEnabled, \* r.impressionListenerEnabled
    lpc,          \* "idle", "record", "listener" or "done"
    lforListener, \* the metadatas of impressionsForListener returned by fetch
    lpending,     \* those sendDataToListener has not ranged over yet
    loffered,     \* what became of each batch ranged over, in order
    lqueue,       \* metadatas of the bulks in the listener queue, from this pass
    lresult       \* what synchronizeImpressions returned: "nil" or "error"

lsnVars == <<impressionListenerEnabled, lpc, lforListener, lpending, loffered,
             lqueue, lresult>>

\* ---- Update called from several goroutines at once ----
VARIABLES
    cmtx,        \* p.mtx: the caller that holds it, or NoProc
    cpc,         \* where each caller is in Update
    citems,      \* items of toPersist the caller has still to add to the disk
    ccall,       \* number of the call each caller is in
    ccalls,      \* calls of Update made so far
    ccontended,  \* some call reached p.mtx.Lock() while another held the mutex
    ceffects     \* every write of every call, in the order they happened

concVars == <<cmtx, cpc, citems, ccall, ccalls, ccontended, ceffects>>

\* ---- stats.LatencyStorage ----
VARIABLES
    storedLatencies,  \* l.latencies: the slice stored for each name
    addedLatencies,   \* every value ever added for each name, in arrival order
    addCalls          \* calls of Add made so far

latVars == <<storedLatencies, addedLatencies, addCalls>>

\* ---- the latency middleware around one request ----
VARIABLES
    mpc,        \* position of Track: "idle", "next" (inside c.Next()), "after", "returned"
    mkeys,      \* the value the gin.Context holds under EndpointKey, or NoValue
    mhandled,   \* the handler of the request has completed
    mbefore,    \* before := time.Now()
    mnow,       \* the clock
    mtracked,   \* calls of RecordEndpointLatency made for the request
    mrequests   \* requests served so far

mwVars == <<mpc, mkeys, mhandled, mbefore, mnow, mtracked, mrequests>>

\* ---- tallies of the impression drain ----
VARIABLES
    flushSize,   \* ghost: N of the running flush, bulkSize or MaxSizeToFlush
    passes,      \* ghost: calls of synchronizeImpressions the flush has made
    handed,      \* ghost: impression -> batches handed to Record that hold it
    failedPosts  \* ghost: impressions of the batches whose Record failed

tallyVars == <<flushSize, passes, handed, failedPosts>>

\* ---- newForResource beside IncrEndpointStatus, on one statusCodeMap ----
VARIABLES
    scCodes,     \* statusCodes.codes: status code -> count
    scpc,        \* position of newForResource: "idle", "sum", "peek", "done"
    scPending,   \* codes the range loop has still to visit
    scCount,     \* the local count
    scEntry,     \* the ForResource returned: its statusCodes and requestCount
    scIncrs      \* increments made so far

scVars == <<scCodes, scpc, scPending, scCount, scEntry, scIncrs>>

vars == <<impVars, storeVars, sdkVars, opVars, drainVars, telVars, keyVars, segVars, evVars, respVars, lsnVars, concVars, latVars, mwVars, tallyVars, scVars>>

\* what the steps of one component leave alone
outsideImp == <<storeVars, sdkVars, opVars, drainVars, telVars, keyVars, segVars, evVars, respVars, lsnVars, concVars, latVars, mwVars, scVars>>
outsideStore == <<impVars, sdkVars, opVars, drainVars, telVars, keyVars, segVars, evVars, respVars, lsnVars, concVars, latVars, mwVars, tallyVars, scVars>>
outsideSdk == <<impVars, storeVars, opVars, drainVars, telVars, keyVars, segVars, evVars, lsnVars, concVars, latVars, mwVars, tallyVars, scVars>>
outsideOps == <<impVars, sdkVars, drainVars, telVars, keyVars, segVars, evVars, respVars, lsnVars, concVars, latVars, mwVars, tallyVars, scVars>>
outsideDrain == <<impVars, storeVars, sdkVars, opVars, telVars, keyVars, segVars, evVars, respVars, lsnVars, concVars, latVars, mwVars, tallyVars, scVars>>
outsideTel == <<impVars, storeVars, sdkVars, opVars, drainVars, keyVars, segVars, evVars, respVars, lsnVars, concVars, latVars, mwVars, tallyVars, scVars>>
outsideKey == <<impVars, storeVars, sdkVars, opVars, drainVars, telVars, segVars, evVars, respVars, lsnVars, concVars, latVars, mwVars, tallyVars, scVars>>
outsideSeg == <<impVars, storeVars, sdkVars, opVars, drainVars, telVars, keyVars, evVars, respVars, lsnVars, concVars, latVars, mwVars, tallyVars, scVars>>
outsideEv == <<impVars, storeVars, sdkVars, opVars, drainVars, telVars, keyVars, segVars, respVars, lsnVars, concVars, latVars, mwVars, tallyVars, scVars>>
outsideLsn == <<impVars, storeVars, sdkVars, opVars, drainVars, telVars, keyVars, segVars, evVars, respVars, concVars, latVars, mwVars, tallyVars, scVars>>
outsideConc == <<impVars, storeVars, sdkVars, opVars, drainVars, telVars, keyVars, segVars, evVars, respVars, lsnVars, latVars, mwVars, tallyVars, scVars>>
outsideLat == <<impVars, storeVars, sdkVars, opVars, drainVars, telVars, keyVars, segVars, evVars, respVars, lsnVars, concVars, mwVars, tallyVars, scVars>>
outsideMw == <<impVars, storeVars, sdkVars, opVars, drainVars, telVars, keyVars, segVars, evVars, respVars, lsnVars, concVars, latVars, tallyVars, scVars>>
outsideSc == <<impVars, storeVars, sdkVars, opVars, drainVars, telVars, keyVars, segVars, evVars, respVars, lsnVars, concVars, latVars, mwVars, tallyVars>>

Min(a, b) == IF a < b THEN a ELSE b
Max(a, b) == IF a > b THEN a ELSE b

SeqToSet(s) == {s[i] : i \in 1..Len(s)}

(***************************************************************************)
(* The operation gate (package task).                                      *)
(***************************************************************************)
IsOperationRunning == impressionsRunning

\* RequestOperation: TRUE iff the flag was free; the flag is set either way
RequestOperationGranted == ~impressionsRunning

RequestOperation(p) ==
    /\ impressionsRunning' = TRUE
    /\ gateOwner' = IF RequestOperationGranted THEN p ELSE gateOwner

FinishOperation ==
    /\ impressionsRunning' = FALSE
    /\ gateOwner' = NoProc

(***************************************************************************)
(* Producers: HTTP handlers enqueue impressions.                           *)
(***************************************************************************)
Enqueue ==
    /\ UNCHANGED outsideImp
    /\ UNCHANGED tallyVars
    /\ nextImp <= MaxImps
    /\ queue' = Append(queue, nextImp)
    /\ nextImp' = nextImp + 1
    /\ UNCHANGED <<impressionsRunning, gateOwner, posted, pc, bulk,
                   elementsToFlush, held, result, popped, recordCalls,
                   sawRunning, blockedBy>>

(***************************************************************************)
(* SynchronizeImpressions(bulkSize): the scheduled sync.                   *)
(***************************************************************************)
SynchronizeImpressionsNoGateQuery(p) ==
    /\ UNCHANGED outsideImp
    /\ UNCHANGED tallyVars
    /\ pc[p] = "idle"
    /\ p \in SyncProcs
    /\ sawRunning' = [sawRunning EXCEPT ![p] = IsOperationRunning]
    /\ \E b \in 1..DefaultSize :
          /\ bulk' = [bulk EXCEPT ![p] = b]
          /\ pc' = [pc EXCEPT ![p] = "fetch"]
          /\ UNCHANGED result
    /\ UNCHANGED <<impressionsRunning, gateOwner, queue, nextImp, posted,
                   elementsToFlush, held, popped, recordCalls, blockedBy>>

SynchronizeImpressions(p) ==
    /\ UNCHANGED outsideImp
    /\ UNCHANGED tallyVars
    /\ pc[p] = "idle"
    /\ p \in SyncProcs
    /\ sawRunning' = [sawRunning EXCEPT ![p] = IsOperationRunning]
    /\ IF IsOperationRunning
       THEN /\ result' = [result EXCEPT ![p] = "nil"]
            /\ pc' = [pc EXCEPT ![p] = "done"]
            /\ UNCHANGED bulk
       ELSE \E b \in 1..DefaultSize :
               /\ bulk' = [bulk EXCEPT ![p] = b]
               /\ pc' = [pc EXCEPT ![p] = "fetch"]
               /\ UNCHANGED result
    /\ UNCHANGED <<impressionsRunning, gateOwner, queue, nextImp, posted,
                   elementsToFlush, held, popped, recordCalls, blockedBy>>

(***************************************************************************)
(* FlushImpressions(bulkSize): the user-triggered flush.                   *)
(***************************************************************************)
FlushImpressionsIgnoreDenial(p) ==
    /\ UNCHANGED outsideImp
    /\ pc[p] = "idle"
    /\ p \in FlushProcs
    /\ passes' = [passes EXCEPT ![p] = 0]
    /\ UNCHANGED <<handed, failedPosts>>
    /\ \E b \in BulkSizes :
          /\ RequestOperation(p)
          /\ elementsToFlush' = [elementsToFlush EXCEPT ![p] =
                                   IF b # 0 THEN b ELSE MaxSizeToFlush]
          /\ flushSize' = [flushSize EXCEPT ![p] =
                             IF b # 0 THEN b ELSE MaxSizeToFlush]
          /\ pc' = [pc EXCEPT ![p] = "loop"]
          /\ UNCHANGED <<result, blockedBy>>
    /\ UNCHANGED <<queue, nextImp, posted, bulk, held, popped, recordCalls,
                   sawRunning>>

FlushImpressions(p) ==
    /\ UNCHANGED outsideImp
    /\ pc[p] = "idle"
    /\ p \in FlushProcs
    /\ passes' = [passes EXCEPT ![p] = 0]
    /\ UNCHANGED <<handed, failedPosts>>
    /\ \E b \in BulkSizes :
          IF RequestOperationGranted
          THEN /\ RequestOperation(p)
               /\ elementsToFlush' = [elementsToFlush EXCEPT ![p] =
                                        IF b # 0 THEN b ELSE MaxSizeToFlush]
               /\ flushSize' = [flushSize EXCEPT ![p] =
                                  IF b # 0 THEN b ELSE MaxSizeToFlush]
               /\ pc' = [pc EXCEPT ![p] = "loop"]
               /\ UNCHANGED <<result, blockedBy>>
          ELSE /\ result' = [result EXCEPT ![p] = "busy"]
               /\ blockedBy' = [blockedBy EXCEPT ![p] = gateOwner]
               /\ pc' = [pc EXCEPT ![p] = "done"]
               /\ UNCHANGED <<impressionsRunning, gateOwner, elementsToFlush,
                              flushSize>>
    /\ UNCHANGED <<queue, nextImp, posted, bulk, held, popped, recordCalls,
                   sawRunning>>

\* what a mutation of the loop would do: ask every pass for DefaultSize
FlushLoopAlwaysDefaultSize(p) ==
    /\ UNCHANGED outsideImp
    /\ pc[p] = "loop"
    /\ UNCHANGED <<flushSize, handed, failedPosts>>
    /\ IF elementsToFlush[p] > 0 /\ Len(queue) > 0
       THEN /\ bulk' = [bulk EXCEPT ![p] = DefaultSize]
            /\ pc' = [pc EXCEPT ![p] = "fetch"]
            /\ passes' = [passes EXCEPT ![p] = @ + 1]
            /\ UNCHANGED result
       ELSE /\ result' = [result EXCEPT ![p] = "nil"]
            /\ pc' = [pc EXCEPT ![p] = "finish"]
            /\ UNCHANGED <<bulk, passes>>
    /\ UNCHANGED <<impressionsRunning, gateOwner, queue, nextImp, posted,
                   elementsToFlush, held, popped, recordCalls, sawRunning,
                   blockedBy>>

\* the loop head: elementsToFlush > 0 && impressionStorage.Count() > 0
FlushLoop(p) ==
    /\ UNCHANGED outsideImp
    /\ pc[p] = "loop"
    /\ UNCHANGED <<flushSize, handed, failedPosts>>
    /\ IF elementsToFlush[p] > 0 /\ Len(queue) > 0
       THEN /\ bulk' = [bulk EXCEPT ![p] = Min(DefaultSize, elementsToFlush[p])]
            /\ pc' = [pc EXCEPT ![p] = "fetch"]
            /\ passes' = [passes EXCEPT ![p] = @ + 1]
            /\ UNCHANGED result
       ELSE /\ result' = [result EXCEPT ![p] = "nil"]
            /\ pc' = [pc EXCEPT ![p] = "finish"]
            /\ UNCHANGED <<bulk, passes>>
    /\ UNCHANGED <<impressionsRunning, gateOwner, queue, nextImp, posted,
                   elementsToFlush, held, popped, recordCalls, sawRunning,
                   blockedBy>>

\* the deferred FinishOperation, run as FlushImpressions returns
FlushFinish(p) ==
    /\ UNCHANGED outsideImp
    /\ UNCHANGED tallyVars
    /\ pc[p] = "finish"
    /\ FinishOperation
    /\ pc' = [pc EXCEPT ![p] = "done"]
    /\ UNCHANGED <<queue, nextImp, posted, bulk, elementsToFlush, held, result,
                   popped, recordCalls, sawRunning, blockedBy>>

(***************************************************************************)
(* synchronizeImpressions(bulkSize): fetch, then recordImpressions.        *)
(***************************************************************************)
\* what a mutation of fetch would do: read the impressions and leave them
\* on the queue
FetchLeavingQueue(p) ==
    /\ UNCHANGED outsideImp
    /\ UNCHANGED tallyVars
    /\ pc[p] = "fetch"
    /\ LET n == Min(bulk[p], Len(queue))
           got == {queue[i] : i \in 1..n}
       IN /\ queue' = queue
          /\ held' = [held EXCEPT ![p] = got]
          /\ popped' = [popped EXCEPT ![p] = @ \cup got]
    /\ pc' = [pc EXCEPT ![p] = "record"]
    /\ UNCHANGED <<impressionsRunning, gateOwner, nextImp, posted, bulk,
                   elementsToFlush, result, recordCalls, sawRunning, blockedBy>>

\* fetch: PopNWithMetadata(bulkSize) takes up to bulkSize impressions
Fetch(p) ==
    /\ UNCHANGED outsideImp
    /\ UNCHANGED tallyVars
    /\ pc[p] = "fetch"
    /\ LET n == Min(bulk[p], Len(queue))
           got == {queue[i] : i \in 1..n}
       IN /\ queue' = SubSeq(queue, n + 1, Len(queue))
          /\ held' = [held EXCEPT ![p] = got]
          /\ popped' = [popped EXCEPT ![p] = @ \cup got]
    /\ pc' = [pc EXCEPT ![p] = "record"]
    /\ UNCHANGED <<impressionsRunning, gateOwner, nextImp, posted, bulk,
                   elementsToFlush, result, recordCalls, sawRunning, blockedBy>>

\* what a mutation of the error return would do: leave without the
\* deferred FinishOperation
FetchErrorWithoutFinish(p) ==
    /\ UNCHANGED outsideImp
    /\ UNCHANGED tallyVars
    /\ pc[p] = "fetch"
    /\ result' = [result EXCEPT ![p] = "error"]
    /\ pc' = [pc EXCEPT ![p] = "done"]
    /\ UNCHANGED <<impressionsRunning, gateOwner, queue, nextImp, posted, bulk,
                   elementsToFlush, held, popped, recordCalls, sawRunning,
                   blockedBy>>

\* fetch: PopNWithMetadata fails, synchronizeImpressions returns the error
FetchError(p) ==
    /\ UNCHANGED outsideImp
    /\ UNCHANGED tallyVars
    /\ pc[p] = "fetch"
    /\ result' = [result EXCEPT ![p] = "error"]
    /\ pc' = [pc EXCEPT ![p] = IF p \in FlushProcs THEN "finish" ELSE "done"]
    /\ UNCHANGED <<impressionsRunning, gateOwner, queue, nextImp, posted, bulk,
                   elementsToFlush, held, popped, recordCalls, sawRunning,
                   blockedBy>>

\* recordImpressions: the popped impressions go to Record; the callback
\* swallows Record's error, so synchronizeImpressions returns nil
RecordBatch(p, ok) ==
    /\ UNCHANGED outsideImp
    /\ pc[p] = "record"
    /\ posted' = posted \cup held[p]
    /\ handed' = [i \in DOMAIN handed |->
                    IF i \in held[p] THEN handed[i] + 1 ELSE handed[i]]
    /\ failedPosts' = IF ok THEN failedPosts ELSE failedPosts \cup held[p]
    /\ UNCHANGED <<flushSize, passes>>
    /\ recordCalls' = [recordCalls EXCEPT ![p] =
                          IF held[p] = {} THEN @ ELSE @ + 1]
    /\ held' = [held EXCEPT ![p] = {}]
    /\ IF p \in FlushProcs
       THEN /\ elementsToFlush' = [elementsToFlush EXCEPT ![p] = @ - DefaultSize]
            /\ pc' = [pc EXCEPT ![p] = "loop"]
            /\ UNCHANGED result
       ELSE /\ result' = [result EXCEPT ![p] = "nil"]
            /\ pc' = [pc EXCEPT ![p] = "done"]
            /\ UNCHANGED elementsToFlush
    /\ UNCHANGED <<impressionsRunning, gateOwner, queue, nextImp, bulk, popped,
                   sawRunning, blockedBy>>

\* Record answers without an error
RecordImpressions(p) == pc[p] = "record" /\ RecordBatch(p, TRUE)

\* Record answers with an error, which the callback logs
RecordImpressionsPostFailed(p) == held[p] # {} /\ RecordBatch(p, FALSE)

\* the caller takes the result; the worker or handler may call again
Return(p) ==
    /\ UNCHANGED outsideImp
    /\ pc[p] = "done"
    /\ flushSize' = [flushSize EXCEPT ![p] = 0]
    /\ passes' = [passes EXCEPT ![p] = 0]
    /\ UNCHANGED <<handed, failedPosts>>
    /\ pc' = [pc EXCEPT ![p] = "idle"]
    /\ result' = [result EXCEPT ![p] = "none"]
    /\ popped' = [popped EXCEPT ![p] = {}]
    /\ recordCalls' = [recordCalls EXCEPT ![p] = 0]
    /\ sawRunning' = [sawRunning EXCEPT ![p] = FALSE]
    /\ blockedBy' = [blockedBy EXCEPT ![p] = NoProc]
    /\ elementsToFlush' = [elementsToFlush EXCEPT ![p] = 0]
    /\ bulk' = [bulk EXCEPT ![p] = 0]
    /\ UNCHANGED <<impressionsRunning, gateOwner, queue, nextImp, posted, held>>

InitImp ==
    /\ impressionsRunning = FALSE
    /\ gateOwner = NoProc
    /\ queue = <<>>
    /\ nextImp = 1
    /\ posted = {}
    /\ pc = [p \in Procs |-> "idle"]
    /\ bulk = [p \in Procs |-> 0]
    /\ elementsToFlush = [p \in Procs |-> 0]
    /\ held = [p \in Procs |-> {}]
    /\ result = [p \in Procs |-> "none"]
    /\ popped = [p \in Procs |-> {}]
    /\ recordCalls = [p \in Procs |-> 0]
    /\ sawRunning = [p \in Procs |-> FALSE]
    /\ blockedBy = [p \in Procs |-> NoProc]
    /\ flushSize = [p \in Procs |-> 0]
    /\ passes = [p \in Procs |-> 0]
    /\ handed = [i \in 1..MaxImps |-> 0]
    /\ failedPosts = {}

NextImp ==
    \/ Enqueue
    \/ \E p \in SyncProcs : SynchronizeImpressions(p)
    \/ \E p \in FlushProcs : FlushImpressions(p)
    \/ \E p \in FlushProcs : FlushLoop(p)
    \/ \E p \in FlushProcs : FlushFinish(p)
    \/ \E p \in Procs : Fetch(p)
    \/ \E p \in Procs : FetchError(p)
    \/ \E p \in Procs : RecordImpressions(p)
    \/ \E p \in Procs : Return(p)

\* the drains of one flush and of the scheduled sync, with the outcome of
\* every POST open
DeliverFlushes == {"f1"}

NextDeliver ==
    \/ Enqueue
    \/ \E p \in SyncProcs : SynchronizeImpressions(p)
    \/ \E p \in DeliverFlushes : FlushImpressions(p)
    \/ \E p \in DeliverFlushes : FlushLoop(p)
    \/ \E p \in DeliverFlushes : FlushFinish(p)
    \/ \E p \in Procs : Fetch(p)
    \/ \E p \in Procs : FetchError(p)
    \/ \E p \in Procs : RecordImpressions(p)
    \/ \E p \in Procs : RecordImpressionsPostFailed(p)
    \/ \E p \in Procs : Return(p)

(***************************************************************************)
(* The proxy split storage (ProxySplitStorageImpl): the mirror `snapshot`, *)
(* the recipe cache `recipes`, the persistent collection `disk`.           *)
(***************************************************************************)
Names == {"A", "B"}
CNs == 1..MaxCN
Sinces == (0 - 1)..MaxCN
Updaters == {"u1"}
\* optimized.SplitChangesSummaries: number of recipes it retains
MaxRecipes == 2

NoSplit == [changeNumber |-> 0, status |-> "NONE"]
NoData == [n \in Names |-> NoSplit]
NoArgs == [add |-> {}, own |-> 0, rem |-> {}, cn |-> 0]
NoPre == [data |-> NoData, till |-> 0]
NoSummary == [updated |-> {}, removed |-> {}]
NoResult == [kind |-> "none", since |-> 0, till |-> 0, splits |-> {}]

\* mutexmap.MMSplitStorage.Update on the map: toAdd is stored (each split with
\* its own changeNumber), toRemove is deleted
SnapshotUpdate(data, add, own, rem) ==
    [n \in Names |->
        IF n \in add THEN [changeNumber |-> own, status |-> "ACTIVE"]
        ELSE IF n \in rem THEN NoSplit ELSE data[n]]

\* mutexmap.MMSplitStorage.Update on till: set to the changeNumber passed
SnapshotTillAfter(till, cn) == cn

\* mutexmap.MMSplitStorage.All: every stored split
SnapshotAll(data) ==
    {[name |-> n, changeNumber |-> data[n].changeNumber,
      status |-> data[n].status] : n \in {m \in Names : data[m] # NoSplit}}

\* ChangeSummary.applyChange: a later recipe on top of a summary
ApplyChange(acc, rec) ==
    [updated |-> (acc.updated \ rec.removed) \cup rec.updated,
     removed |-> (acc.removed \ rec.updated) \cup rec.removed]

RECURSIVE Summarize(_, _, _)
\* the recipes with cn > since, applied in order
Summarize(recs, since, acc) ==
    IF recs = <<>> THEN acc
    ELSE Summarize(Tail(recs), since,
                   IF Head(recs).cn > since THEN ApplyChange(acc, Head(recs))
                   ELSE acc)

RECURSIVE MaxCn(_, _)
MaxCn(recs, least) ==
    IF recs = <<>> THEN least ELSE MaxCn(Tail(recs), Max(least, Head(recs).cn))

\* till of the recipe cache: the greatest retained change number
RecipesTill(recs) == MaxCn(recs, 0 - 1)

\* SplitChangesSummaries.FetchSince: is `since` inside the retained window
FetchSinceCached(recs, floor, since) ==
    /\ since >= floor
    /\ since <= RecipesTill(recs)

\* SplitChangesSummaries.FetchSince: the summary of the changes after `since`
FetchSince(recs, since) == Summarize(recs, since, NoSummary)

\* SplitChangesSummaries.AddChanges: append the recipe, evict the oldest
AddChangesRecipes(recs, rec) ==
    IF Len(recs) + 1 > MaxRecipes THEN Tail(Append(recs, rec))
    ELSE Append(recs, rec)

AddChangesFloor(recs, floor) ==
    IF Len(recs) + 1 > MaxRecipes THEN Max(floor, Head(recs).cn) ELSE floor

\* ghost: the mirror before each recipe is kept while change numbers increase
KeepPre(recs, inc) ==
    IF inc THEN recs ELSE [i \in DOMAIN recs |-> [recs[i] EXCEPT !.pre = NoData]]

\* optimized.BuildArchivedSplitsFor: one ARCHIVED split per removed name
BuildArchivedSplitsFor(removed, till) ==
    {[name |-> n, changeNumber |-> till, status |-> "ARCHIVED"] : n \in removed}

\* toSplitChangesItems and disk.Add: the last item persisted for each name
DiskAdd(items, add, own, rem, cn) ==
    [n \in Names |->
        IF n \in add THEN [changeNumber |-> own, status |-> "ACTIVE"]
        ELSE IF n \in rem THEN [changeNumber |-> cn, status |-> "ARCHIVED"]
        ELSE items[n]]

NotCached(since) == [kind |-> "notcached", since |-> since, till |-> 0, splits |-> {}]
Panic(since) == [kind |-> "panic", since |-> since, till |-> 0, splits |-> {}]
Payload(since, till, splits) ==
    [kind |-> "payload", since |-> since, till |-> till, splits |-> splits]

\* ChangesSince, since == -1: the payload built from ChangeNumber and All
BuildAllTillIsSince(since, till, data) == Payload(since, since, SnapshotAll(data))

BuildAll(since, till, data) == Payload(since, till, SnapshotAll(data))

\* ChangesSince, regular flow: FetchMany of the updated names (a nil entry,
\* for a name the mirror lacks, is dereferenced), then the archived ones
BuildChangesNoArchived(since, till, summary, data) ==
    IF \E n \in summary.updated : data[n] = NoSplit
    THEN Panic(since)
    ELSE Payload(since, till,
                 {sp \in SnapshotAll(data) : sp.name \in summary.updated})

BuildChanges(since, till, summary, data) ==
    IF \E n \in summary.updated : data[n] = NoSplit
    THEN Panic(since)
    ELSE Payload(since, till,
                 {sp \in SnapshotAll(data) : sp.name \in summary.updated}
                 \cup BuildArchivedSplitsFor(summary.removed, till))

\* ChangesSince run in one piece on a given state of the storage
ChangesSinceOn(since, data, till, recs, floor) ==
    IF since = 0 - 1 THEN BuildAll(since, till, data)
    ELSE IF ~FetchSinceCached(recs, floor, since) THEN NotCached(since)
    ELSE BuildChanges(since, RecipesTill(recs), FetchSince(recs, since), data)

\* ghost: the removal of a name that had been added, until it is added again
RemovedAtAfter(at, data, add, rem, cn) ==
    [n \in Names |->
        IF n \in add THEN 0
        ELSE IF n \in rem /\ (data[n] # NoSplit \/ at[n] # 0) THEN cn
        ELSE at[n]]

RECURSIVE SeenIn(_, _, _)
\* ghost: for each name, the change number of the last recipe after `since`
\* that lists it as updated
SeenIn(recs, since, acc) ==
    IF recs = <<>> THEN acc
    ELSE SeenIn(Tail(recs), since,
                IF Head(recs).cn > since
                THEN [n \in Names |->
                        IF n \in Head(recs).updated THEN Head(recs).cn
                        ELSE IF n \in Head(recs).removed THEN 0 ELSE acc[n]]
                ELSE acc)

NoSeen == [n \in Names |-> 0]

MidUpdate == \E u \in Updaters : upc[u] = "recipes"
ReadRunning == rpc \in {"all", "fetchMany"}

\* the recipe the Update in progress is about to append
RecipeOf(u) ==
    [cn |-> uargs[u].cn, updated |-> uargs[u].add, removed |-> uargs[u].rem,
     pre |-> upre[u].data]

\* ghost: what ChangesSince(since) returns when it runs in one piece, before
\* the Update in progress (if any) and after it
Candidates(since) ==
    IF MidUpdate
    THEN LET u == CHOOSE v \in Updaters : upc[v] = "recipes"
         IN {ChangesSinceOn(since, upre[u].data, upre[u].till, recipes,
                            recipeFloor),
             ChangesSinceOn(since, snapshotData, snapshotTill,
                            AddChangesRecipes(recipes, RecipeOf(u)),
                            AddChangesFloor(recipes, recipeFloor))}
    ELSE {ChangesSinceOn(since, snapshotData, snapshotTill, recipes,
                         recipeFloor)}

(***************************************************************************)
(* Update(toAdd, toRemove, changeNumber), one call at a time: the caller   *)
(* passes any change number, and the added splits carry their own, which  *)
(* is at most the change number of the call.                               *)
(***************************************************************************)
\* the body of Update, were the test of the empty lists not there
UpdateWithNoEmptyReturn(add, own, rem, cn) ==
    LET inc == increasing /\ cn > snapshotTill
        rec == [cn |-> cn, updated |-> add, removed |-> rem,
                pre |-> snapshotData]
    IN /\ snapshotData' = SnapshotUpdate(snapshotData, add, own, rem)
       /\ snapshotTill' = SnapshotTillAfter(snapshotTill, cn)
       /\ recipes' = KeepPre(AddChangesRecipes(recipes, rec), inc)
       /\ recipeFloor' = AddChangesFloor(recipes, recipeFloor)
       /\ disk' = DiskAdd(disk, add, own, rem, cn)
       /\ increasing' = inc
       /\ highest' = Max(highest, cn)
       /\ removedAt' = RemovedAtAfter(removedAt, snapshotData, add, rem, cn)
       /\ UNCHANGED <<mtx, upc, uargs, upre, rpc, rsince, rtill, rsummary,
                      rseen, rresult, roverlap, rcands>>

\* the body of Update: nothing when both lists are empty, else the mirror,
\* the recipes and the persistent collection, under p.mtx
UpdateWith(add, own, rem, cn) ==
    IF add = {} /\ rem = {}
    THEN UNCHANGED storeVars
    ELSE LET inc == increasing /\ cn > snapshotTill
             rec == [cn |-> cn, updated |-> add, removed |-> rem,
                     pre |-> snapshotData]
         IN /\ snapshotData' = SnapshotUpdate(snapshotData, add, own, rem)
            /\ snapshotTill' = SnapshotTillAfter(snapshotTill, cn)
            /\ recipes' = KeepPre(AddChangesRecipes(recipes, rec), inc)
            /\ recipeFloor' = AddChangesFloor(recipes, recipeFloor)
            /\ disk' = DiskAdd(disk, add, own, rem, cn)
            /\ increasing' = inc
            /\ highest' = Max(highest, cn)
            /\ removedAt' = RemovedAtAfter(removedAt, snapshotData, add,
                                           rem, cn)
            /\ UNCHANGED <<mtx, upc, uargs, upre, rpc, rsince, rtill,
                           rsummary, rseen, rresult, roverlap, rcands>>

Update ==
    /\ rpc = "idle"
    /\ \A u \in Updaters : upc[u] = "idle"
    /\ \E add \in SUBSET Names : \E rem \in SUBSET (Names \ add) :
       \E cn \in CNs : \E own \in 1..cn :
          UpdateWith(add, own, rem, cn)
    /\ UNCHANGED outsideStore

(***************************************************************************)
(* Update running beside a reader: the sync engine's calls, in increasing  *)
(* change-number order, each split carrying the change number of its call. *)
(***************************************************************************)
\* Update up to p.snapshot.Update: p.mtx.Lock, then the mirror
UpdateSnapshot(u) ==
    /\ upc[u] = "idle"
    /\ mtx = NoProc
    /\ \E add \in SUBSET Names : \E rem \in SUBSET (Names \ add) :
       \E cn \in CNs :
          /\ add # {} \/ rem # {}
          /\ cn > snapshotTill
          /\ snapshotData' = SnapshotUpdate(snapshotData, add, cn, rem)
          /\ snapshotTill' = SnapshotTillAfter(snapshotTill, cn)
          /\ uargs' = [uargs EXCEPT ![u] =
                         [add |-> add, own |-> cn, rem |-> rem, cn |-> cn]]
          /\ highest' = Max(highest, cn)
          /\ removedAt' = RemovedAtAfter(removedAt, snapshotData, add, rem, cn)
          /\ rcands' =
                IF ReadRunning
                THEN rcands \cup
                     {ChangesSinceOn(rsince,
                         SnapshotUpdate(snapshotData, add, cn, rem),
                         SnapshotTillAfter(snapshotTill, cn),
                         AddChangesRecipes(recipes,
                             [cn |-> cn, updated |-> add, removed |-> rem,
                              pre |-> snapshotData]),
                         AddChangesFloor(recipes, recipeFloor))}
                ELSE rcands
    /\ mtx' = u
    /\ upre' = [upre EXCEPT ![u] = [data |-> snapshotData, till |-> snapshotTill]]
    /\ upc' = [upc EXCEPT ![u] = "recipes"]
    /\ roverlap' = (roverlap \/ rpc # "idle")
    /\ UNCHANGED <<recipes, recipeFloor, disk, increasing, rpc, rsince, rtill,
                   rsummary, rseen, rresult>>
    /\ UNCHANGED outsideStore

\* p.recipes.AddChanges(changeNumber, toAddViews, toDelViews)
UpdateRecipes(u) ==
    /\ upc[u] = "recipes"
    /\ recipes' = AddChangesRecipes(recipes, RecipeOf(u))
    /\ recipeFloor' = AddChangesFloor(recipes, recipeFloor)
    /\ upc' = [upc EXCEPT ![u] = "disk"]
    /\ roverlap' = (roverlap \/ rpc # "idle")
    /\ UNCHANGED <<snapshotData, snapshotTill, disk, mtx, uargs, increasing,
                   highest, removedAt, upre, rpc, rsince, rtill, rsummary,
                   rseen, rresult, rcands>>
    /\ UNCHANGED outsideStore

\* p.disk.Add of every item of toPersist, then p.mtx.Unlock
UpdateDisk(u) ==
    /\ upc[u] = "disk"
    /\ disk' = DiskAdd(disk, uargs[u].add, uargs[u].own, uargs[u].rem, uargs[u].cn)
    /\ mtx' = NoProc
    /\ upc' = [upc EXCEPT ![u] = "idle"]
    /\ uargs' = [uargs EXCEPT ![u] = NoArgs]
    /\ upre' = [upre EXCEPT ![u] = NoPre]
    /\ UNCHANGED <<snapshotData, snapshotTill, recipes, recipeFloor, increasing,
                   highest, removedAt, rpc, rsince, rtill, rsummary, rseen,
                   rresult, roverlap, rcands>>
    /\ UNCHANGED outsideStore

(***************************************************************************)
(* ChangesSince(since).                                                    *)
(***************************************************************************)
\* the whole call, with no Update running beside it
ChangesSince ==
    /\ rpc = "idle"
    /\ \A u \in Updaters : upc[u] = "idle"
    /\ \E since \in Sinces :
          LET res == ChangesSinceOn(since, snapshotData, snapshotTill, recipes,
                                    recipeFloor)
          IN /\ rsince' = since
             /\ rresult' = res
             /\ rcands' = {res}
    /\ rpc' = "done"
    /\ UNCHANGED <<snapshotData, snapshotTill, recipes, recipeFloor, disk, mtx,
                   upc, uargs, increasing, highest, removedAt, upre, rtill,
                   rsummary, rseen, roverlap>>
    /\ UNCHANGED outsideStore

\* since == -1: p.snapshot.ChangeNumber()
ReadChangeNumber ==
    /\ rpc = "idle"
    /\ rsince' = 0 - 1
    /\ rtill' = snapshotTill
    /\ rpc' = "all"
    /\ roverlap' = MidUpdate
    /\ rcands' = Candidates(0 - 1)
    /\ UNCHANGED <<snapshotData, snapshotTill, recipes, recipeFloor, disk, mtx,
                   upc, uargs, increasing, highest, removedAt, upre, rsummary,
                   rseen, rresult>>
    /\ UNCHANGED outsideStore

\* since == -1: p.snapshot.All() and the payload
ReadAll ==
    /\ rpc = "all"
    /\ rresult' = BuildAll(rsince, rtill, snapshotData)
    /\ rpc' = "done"
    /\ UNCHANGED <<snapshotData, snapshotTill, recipes, recipeFloor, disk, mtx,
                   upc, uargs, increasing, highest, removedAt, upre, rsince,
                   rtill, rsummary, rseen, roverlap, rcands>>
    /\ UNCHANGED outsideStore

\* since >= 0: p.recipes.FetchSince(since)
ReadFetchSince ==
    /\ rpc = "idle"
    /\ \E since \in Sinces \ {0 - 1} :
          /\ rsince' = since
          /\ rcands' = Candidates(since)
          /\ IF FetchSinceCached(recipes, recipeFloor, since)
             THEN /\ rsummary' = FetchSince(recipes, since)
                  /\ rseen' = SeenIn(recipes, since, NoSeen)
                  /\ rtill' = RecipesTill(recipes)
                  /\ rpc' = "fetchMany"
                  /\ UNCHANGED rresult
             ELSE /\ rresult' = NotCached(since)
                  /\ rpc' = "done"
                  /\ UNCHANGED <<rsummary, rseen, rtill>>
    /\ roverlap' = MidUpdate
    /\ UNCHANGED <<snapshotData, snapshotTill, recipes, recipeFloor, disk, mtx,
                   upc, uargs, increasing, highest, removedAt, upre>>
    /\ UNCHANGED outsideStore

\* since >= 0: p.snapshot.FetchMany(splitNames) and the payload
ReadFetchMany ==
    /\ rpc = "fetchMany"
    /\ rresult' = BuildChanges(rsince, rtill, rsummary, snapshotData)
    /\ rpc' = "done"
    /\ UNCHANGED <<snapshotData, snapshotTill, recipes, recipeFloor, disk, mtx,
                   upc, uargs, increasing, highest, removedAt, upre, rsince,
                   rtill, rsummary, rseen, roverlap, rcands>>
    /\ UNCHANGED outsideStore

\* the handler takes the result; the next poll may start
ReadReturn ==
    /\ rpc = "done"
    /\ rpc' = "idle"
    /\ rsince' = 0
    /\ rtill' = 0
    /\ rsummary' = NoSummary
    /\ rseen' = NoSeen
    /\ rresult' = NoResult
    /\ roverlap' = FALSE
    /\ rcands' = {}
    /\ UNCHANGED <<snapshotData, snapshotTill, recipes, recipeFloor, disk, mtx,
                   upc, uargs, increasing, highest, removedAt, upre>>
    /\ UNCHANGED outsideStore

\* NewProxySplitStorage: empty mirror with till -1, no recipe, empty collection
InitStore ==
    /\ snapshotData = NoData
    /\ snapshotTill = 0 - 1
    /\ recipes = <<>>
    /\ recipeFloor = 0 - 1
    /\ disk = NoData
    /\ mtx = NoProc
    /\ upc = [u \in Updaters |-> "idle"]
    /\ uargs = [u \in Updaters |-> NoArgs]
    /\ increasing = TRUE
    /\ highest = 0 - 1
    /\ removedAt = [n \in Names |-> 0]
    /\ upre = [u \in Updaters |-> NoPre]
    /\ rpc = "idle"
    /\ rsince = 0
    /\ rtill = 0
    /\ rsummary = NoSummary
    /\ rseen = NoSeen
    /\ rresult = NoResult
    /\ roverlap = FALSE
    /\ rcands = {}

(***************************************************************************)
(* The storage as the sync engine drives it: every call is recorded.       *)
(***************************************************************************)
NoCall == [op |-> "none", empty |-> FALSE, cn |-> 0]

\* greatest changeNumber among the splits of one Update: the added ones
\* carry `own`, the removed ones the change number of the call
ObservedAfter(seen, add, own, rem, cn) ==
    Max(seen, Max(IF add # {} THEN own ELSE 0 - 1,
                  IF rem # {} THEN cn ELSE 0 - 1))

\* Update(toAdd, toRemove, changeNumber); a split put in the mirror comes
\* as the upstream sent it, not killed
UpdateCall ==
    /\ calls < MaxCalls
    /\ calls' = calls + 1
    /\ \E add \in SUBSET Names : \E rem \in SUBSET (Names \ add) :
       \E cn \in CNs : \E own \in 1..cn :
          /\ UpdateWith(add, own, rem, cn)
          /\ snapshotKilled' = snapshotKilled \ (add \cup rem)
          /\ lastCall' = [op |-> "Update", empty |-> (add = {} /\ rem = {}),
                          cn |-> cn]
          /\ observed' = ObservedAfter(observed, add, own, rem, cn)
    /\ UNCHANGED outsideOps

\* mutexmap.MMSplitStorage.KillLocally: is the named split stored with an
\* older change number
KillApplies(data, n, cn) == data[n] # NoSplit /\ data[n].changeNumber < cn

\* mutexmap.MMSplitStorage.KillLocally on the map: the split, when stored
\* with an older change number, takes the change number of the kill
SnapshotKillLocally(data, n, cn) ==
    IF KillApplies(data, n, cn) THEN [data EXCEPT ![n].changeNumber = cn]
    ELSE data

\* what a mutation of KillLocally would do: store the killed split through
\* Update, with a recipe and a persisted item
KillLocallyThroughUpdate ==
    /\ calls < MaxCalls
    /\ calls' = calls + 1
    /\ \E n \in Names : \E cn \in CNs :
          /\ IF KillApplies(snapshotData, n, cn)
             THEN /\ UpdateWith({n}, cn, {}, cn)
                  /\ snapshotKilled' = snapshotKilled \cup {n}
             ELSE UNCHANGED <<storeVars, snapshotKilled>>
          /\ lastCall' = [op |-> "KillLocally", empty |-> FALSE, cn |-> cn]
    /\ UNCHANGED observed
    /\ UNCHANGED outsideOps

\* KillLocally: p.snapshot.KillLocally marks the stored split as killed and
\* gives it the change number of the kill, when the stored one is older
KillLocally ==
    /\ calls < MaxCalls
    /\ calls' = calls + 1
    /\ \E n \in Names : \E cn \in CNs :
          /\ snapshotData' = SnapshotKillLocally(snapshotData, n, cn)
          /\ snapshotKilled' = IF KillApplies(snapshotData, n, cn)
                                  THEN snapshotKilled \cup {n}
                                  ELSE snapshotKilled
          /\ lastCall' = [op |-> "KillLocally", empty |-> FALSE, cn |-> cn]
    /\ UNCHANGED <<snapshotTill, recipes, recipeFloor, disk, mtx, upc, uargs,
                   increasing, highest, removedAt, upre, rpc, rsince, rtill,
                   rsummary, rseen, rresult, roverlap, rcands, observed>>
    /\ UNCHANGED outsideOps

\* SetChangeNumber: p.snapshot.SetChangeNumber(cn)
SetChangeNumber ==
    /\ calls < MaxCalls
    /\ calls' = calls + 1
    /\ \E cn \in CNs :
          /\ snapshotTill' = cn
          /\ lastCall' = [op |-> "SetChangeNumber", empty |-> FALSE,
                          cn |-> cn]
    /\ UNCHANGED <<snapshotData, recipes, recipeFloor, disk, mtx, upc, uargs,
                   increasing, highest, removedAt, upre, rpc, rsince, rtill,
                   rsummary, rseen, rresult, roverlap, rcands, snapshotKilled,
                   observed>>
    /\ UNCHANGED outsideOps

\* Remove: p.snapshot.Remove(name)
Remove ==
    /\ calls < MaxCalls
    /\ calls' = calls + 1
    /\ \E n \in Names :
          /\ snapshotData' = [snapshotData EXCEPT ![n] = NoSplit]
          /\ snapshotKilled' = snapshotKilled \ {n}
          /\ lastCall' = [op |-> "Remove", empty |-> FALSE, cn |-> 0]
    /\ UNCHANGED <<snapshotTill, recipes, recipeFloor, disk, mtx, upc, uargs,
                   increasing, highest, removedAt, upre, rpc, rsince, rtill,
                   rsummary, rseen, rresult, roverlap, rcands, observed>>
    /\ UNCHANGED outsideOps

InitOps ==
    /\ snapshotKilled = {}
    /\ lastCall = NoCall
    /\ observed = 0 - 1
    /\ calls = 0

\* the storage under Update calls only
NextStoreUpd == UpdateCall

\* the storage under every writing call of ProxySplitStorageImpl
NextStoreOps ==
    \/ UpdateCall
    \/ KillLocally
    \/ SetChangeNumber
    \/ Remove

\* the storage used by one caller at a time
NextStoreSeq ==
    \/ Update
    \/ ChangesSince
    \/ ReadReturn

\* the storage with the sync engine writing and an SDK handler polling
NextStore ==
    \/ \E u \in Updaters : UpdateSnapshot(u)
    \/ \E u \in Updaters : UpdateRecipes(u)
    \/ \E u \in Updaters : UpdateDisk(u)
    \/ ReadChangeNumber
    \/ ReadAll
    \/ ReadFetchSince
    \/ ReadFetchMany
    \/ ReadReturn

(***************************************************************************)
(* The sdk-server controller (controllers/sdk.go): GET /splitChanges.      *)
(***************************************************************************)
HTTPStatuses == {200, 500}
\* the since query parameter as sent: a number, text that ParseInt rejects,
\* or nothing at all
RawSinces ==
    {[kind |-> "int", n |-> k] : k \in Sinces}
        \cup {[kind |-> "text", n |-> 0], [kind |-> "absent", n |-> 0]}
\* strconv.ParseInt(ctx.DefaultQuery("since", "-1"), 10, 64), -1 on an error
ParseSince(raw) == IF raw.kind = "int" THEN raw.n ELSE 0 - 1
NoPayload == [src |-> "none", since |-> 0, till |-> 0]
\* payloads, told apart by where they come from
StoragePayloads(since) ==
    {[src |-> "storage", since |-> since, till |-> t] :
        t \in {x \in Sinces : x >= since}}
UpstreamPayloads(since) ==
    {[src |-> "upstream", since |-> since, till |-> t] :
        t \in {x \in Sinces : x >= since}}

\* no handler has answered in this request
NoCallYet == [endpoint |-> "none", failed |-> FALSE]

\* SplitChanges up to the call of fetchSplitChangesSince: since is parsed,
\* -1 when the parameter does not parse
SplitChanges ==
    /\ hpc = "idle"
    /\ served < MaxRequests
    /\ \E raw \in RawSinces : hsince' = ParseSince(raw)
    /\ hpc' = "storage"
    /\ UNCHANGED <<herr, hsplits, hret, fetchCalls, registered, hstatus, hbody,
                   statusCount, served>>
    /\ UNCHANGED respVars
    /\ UNCHANGED outsideSdk

\* fetchSplitChangesSince, were every storage error answered by the fetcher
FetchSplitChangesSinceAnyError ==
    /\ hpc = "storage"
    /\ \/ \E pl \in StoragePayloads(hsince) :
             /\ herr' = "nil"
             /\ hsplits' = pl
             /\ hret' = "ok"
             /\ hpc' = "respond"
       \/ /\ herr' \in {"notcached", "other"}
          /\ hpc' = "fetch"
          /\ UNCHANGED <<hsplits, hret>>
    /\ UNCHANGED <<hsince, fetchCalls, registered, hstatus, hbody, statusCount,
                   served>>
    /\ UNCHANGED respVars
    /\ UNCHANGED outsideSdk

\* fetchSplitChangesSince: proxySplitStorage.ChangesSince(since) and the test
\* of its error
FetchSplitChangesSince ==
    /\ hpc = "storage"
    /\ \/ \E pl \in StoragePayloads(hsince) :
             /\ herr' = "nil"
             /\ hsplits' = pl
             /\ hret' = "ok"
             /\ hpc' = "respond"
       \/ /\ herr' = "other"
          /\ hret' = "error"
          /\ hpc' = "respond"
          /\ UNCHANGED hsplits
       \/ /\ herr' = "notcached"
          /\ hpc' = "fetch"
          /\ UNCHANGED <<hsplits, hret>>
    /\ UNCHANGED <<hsince, fetchCalls, registered, hstatus, hbody, statusCount,
                   served>>
    /\ UNCHANGED respVars
    /\ UNCHANGED outsideSdk

\* fetchSplitChangesSince: fetcher.Fetch(since, true), then RegisterOlderCn
\* of what it returned
FetcherFetch ==
    /\ hpc = "fetch"
    /\ fetchCalls' = Append(fetchCalls, hsince)
    /\ \/ \E pl \in UpstreamPayloads(hsince) :
             /\ registered' = Append(registered, pl)
             /\ hsplits' = pl
             /\ hret' = "ok"
       \/ /\ hret' = "error"
          /\ UNCHANGED <<registered, hsplits>>
    /\ hpc' = "respond"
    /\ UNCHANGED <<hsince, herr, hstatus, hbody, statusCount, served>>
    /\ UNCHANGED respVars
    /\ UNCHANGED outsideSdk

\* SplitChanges after fetchSplitChangesSince: 500 on an error, else 200 and
\* the payload
SplitChangesRespond ==
    /\ hpc = "respond"
    /\ hstatus' = IF hret = "error" THEN 500 ELSE 200
    /\ hbody' = IF hret = "error" THEN NoPayload ELSE hsplits
    /\ statusCount' = [statusCount EXCEPT ![hstatus'] = @ + 1]
    /\ hcall' = [endpoint |-> "splitChanges", failed |-> hret = "error"]
    /\ hwritten' = <<hstatus'>>
    /\ hcounted' = <<hstatus'>>
    /\ served' = served + 1
    /\ hpc' = "done"
    /\ UNCHANGED <<hsince, herr, hsplits, hret, fetchCalls, registered>>
    /\ UNCHANGED outsideSdk

\* the request is over; the next one starts afresh
SplitChangesDone ==
    /\ hpc = "done"
    /\ hpc' = "idle"
    /\ hsince' = 0
    /\ herr' = "none"
    /\ hsplits' = NoPayload
    /\ hret' = "none"
    /\ fetchCalls' = <<>>
    /\ registered' = <<>>
    /\ hstatus' = 0
    /\ hbody' = NoPayload
    /\ hcall' = NoCallYet
    /\ hwritten' = <<>>
    /\ hcounted' = <<>>
    /\ UNCHANGED <<statusCount, served>>
    /\ UNCHANGED outsideSdk


\* SegmentChanges: 404 and the error when proxySegmentStorage.ChangesSince
\* fails, else 200 and the payload
SegmentChanges ==
    /\ hpc = "idle"
    /\ served < MaxRequests
    /\ \E raw \in RawSinces, failed \in BOOLEAN :
          /\ hcall' = [endpoint |-> "segmentChanges", failed |-> failed]
          /\ hwritten' = IF failed THEN <<404>> ELSE <<200>>
          /\ hcounted' = IF failed THEN <<404>> ELSE <<200>>
    /\ served' = served + 1
    /\ hpc' = "answered"
    /\ UNCHANGED <<hsince, herr, hsplits, hret, fetchCalls, registered, hstatus,
                   hbody, statusCount>>
    /\ UNCHANGED outsideSdk

\* MySegments: when proxySegmentStorage.SegmentsFor fails, 500 is counted and
\* written and the handler goes on (no return in lines 99-103) to write 200
\* with the empty list and to count 200
MySegments ==
    /\ hpc = "idle"
    /\ served < MaxRequests
    /\ \E failed \in BOOLEAN :
          /\ hcall' = [endpoint |-> "mySegments", failed |-> failed]
          /\ hwritten' = IF failed THEN <<500, 200>> ELSE <<200>>
          /\ hcounted' = IF failed THEN <<500, 200>> ELSE <<200>>
    /\ served' = served + 1
    /\ hpc' = "answered"
    /\ UNCHANGED <<hsince, herr, hsplits, hret, fetchCalls, registered, hstatus,
                   hbody, statusCount>>
    /\ UNCHANGED outsideSdk

\* a SegmentChanges or MySegments request is over
SegmentsDone ==
    /\ hpc = "answered"
    /\ hpc' = "idle"
    /\ hcall' = NoCallYet
    /\ hwritten' = <<>>
    /\ hcounted' = <<>>
    /\ UNCHANGED <<hsince, herr, hsplits, hret, fetchCalls, registered, hstatus,
                   hbody, statusCount, served>>
    /\ UNCHANGED outsideSdk

\* NewSdkServerController
InitSdk ==
    /\ hpc = "idle"
    /\ hsince = 0
    /\ herr = "none"
    /\ hsplits = NoPayload
    /\ hret = "none"
    /\ fetchCalls = <<>>
    /\ registered = <<>>
    /\ hstatus = 0
    /\ hbody = NoPayload
    /\ statusCount = [c \in HTTPStatuses |-> 0]
    /\ served = 0
    /\ hcall = NoCallYet
    /\ hwritten = <<>>
    /\ hcounted = <<>>

NextSdk ==
    \/ SplitChanges
    \/ FetchSplitChangesSince
    \/ FetcherFetch
    \/ SplitChangesRespond
    \/ SplitChangesDone
    \/ SegmentChanges
    \/ MySegments
    \/ SegmentsDone

(***************************************************************************)
(* One drain pass in detail: synchronizeImpressions(bulkSize) through      *)
(* fetch (deduplication, grouping by metadata) and recordImpressions       *)
(* (one POST per metadata, attempts, telemetry).                           *)
(***************************************************************************)
\* (feature, key, changeNumber, treatment, label), one per feature here
Fingerprints == {"x", "y"}
Metadatas == {"m1", "m2"}
Modes == {"optimized", "debug"}
\* impressionRecorder.Record: nil, an error that is not an HTTP one, or a
\* *dtos.HTTPError
RecordOutcomes == {"ok", "transient", "http"}
NoMeta == "none"
NoBatches == [m \in Metadatas |-> <<>>]

\* ImpressionManager.ProcessImpressions of one impression: is it forwarded
Forwarded(imp, seen, mode) == mode # "optimized" \/ imp.fp \notin seen

\* ImpressionManager.ProcessImpressions of one impression: the counter; in
\* optimized mode every impression processed is counted
CounterAfter(counter, imp, seen, mode) ==
    IF mode = "optimized" THEN [counter EXCEPT ![imp.fp] = @ + 1] ELSE counter

\* wrapData: the forwarded impression joins the batch of its metadata
WrapData(batches, imp) == [batches EXCEPT ![imp.meta] = Append(@, imp)]

RECURSIVE ProcessStored(_, _, _)
\* the loop of fetch: each stored impression goes through ProcessImpressions
\* on its own, in the order it was popped
ProcessStored(stored, st, mode) ==
    IF stored = <<>> THEN st
    ELSE LET imp == Head(stored)
             fw == Forwarded(imp, st.seen, mode)
         IN ProcessStored(Tail(stored),
                [seen |-> st.seen \cup {imp.fp},
                 counter |-> CounterAfter(st.counter, imp, st.seen, mode),
                 batches |-> IF fw THEN WrapData(st.batches, imp)
                             ELSE st.batches,
                 fwd |-> IF fw THEN Append(st.fwd, imp) ELSE st.fwd,
                 seenN |-> [st.seenN EXCEPT ![imp.fp] = @ + 1],
                 fwdN |-> IF fw THEN [st.fwdN EXCEPT ![imp.fp] = @ + 1]
                          ELSE st.fwdN],
                mode)

\* the callback given to WithAttempts: Record's error is logged, nil returned
CallbackReturn(outcome) == "nil"

\* NewImpressionRecordMultiple: the impressions mode of managerConfig
DrainConfigure ==
    /\ dstored = 0
    /\ dpc = "idle"
    /\ \E mode \in Modes : dmode' = mode
    /\ UNCHANGED <<dqueue, dstored, dpc, dbulk, observerSeen, impCounter,
                   dbatches, dpending, dcur, dattemptsLeft, dcalls, dtelemetry,
                   dresult, dfwd, dseenN, dfwdN>>
    /\ UNCHANGED outsideDrain

\* an SDK's impression reaches the impression storage
DrainEnqueue ==
    /\ dstored < MaxStored
    /\ \E fp \in Fingerprints : \E m \in Metadatas :
          dqueue' = Append(dqueue, [id |-> dstored + 1, fp |-> fp, meta |-> m])
    /\ dstored' = dstored + 1
    /\ UNCHANGED <<dmode, dpc, dbulk, observerSeen, impCounter, dbatches,
                   dpending, dcur, dattemptsLeft, dcalls, dtelemetry, dresult,
                   dfwd, dseenN, dfwdN>>
    /\ UNCHANGED outsideDrain

\* synchronizeImpressions(bulkSize) is entered
DrainStart ==
    /\ dpc = "idle"
    /\ \E b \in 1..MaxBulk : dbulk' = b
    /\ dpc' = "fetch"
    /\ UNCHANGED <<dmode, dqueue, dstored, observerSeen, impCounter, dbatches,
                   dpending, dcur, dattemptsLeft, dcalls, dtelemetry, dresult,
                   dfwd, dseenN, dfwdN>>
    /\ UNCHANGED outsideDrain

\* fetch: PopNWithMetadata, ProcessImpressions of each, wrapData, wrapDTO
DrainFetch ==
    /\ dpc = "fetch"
    /\ LET n == Min(dbulk, Len(dqueue))
           st == ProcessStored(SubSeq(dqueue, 1, n),
                     [seen |-> observerSeen, counter |-> impCounter,
                      batches |-> NoBatches, fwd |-> <<>>, seenN |-> dseenN,
                      fwdN |-> dfwdN],
                     dmode)
       IN /\ dqueue' = SubSeq(dqueue, n + 1, Len(dqueue))
          /\ observerSeen' = st.seen
          /\ impCounter' = st.counter
          /\ dbatches' = st.batches
          /\ dpending' = {m \in Metadatas : st.batches[m] # <<>>}
          /\ dfwd' = st.fwd
          /\ dseenN' = st.seenN
          /\ dfwdN' = st.fwdN
    /\ dpc' = "record"
    /\ UNCHANGED <<dmode, dstored, dbulk, dcur, dattemptsLeft, dcalls,
                   dtelemetry, dresult>>
    /\ UNCHANGED outsideDrain

\* fetch: PopNWithMetadata fails and synchronizeImpressions returns the error
DrainFetchError ==
    /\ dpc = "fetch"
    /\ dresult' = "error"
    /\ dpc' = "done"
    /\ UNCHANGED <<dmode, dqueue, dstored, dbulk, observerSeen, impCounter,
                   dbatches, dpending, dcur, dattemptsLeft, dcalls, dtelemetry,
                   dfwd, dseenN, dfwdN>>
    /\ UNCHANGED outsideDrain

\* recordImpressions: the range over impressionsToSend takes the next
\* metadata, in any order, or ends and nil is returned
RecordNext ==
    /\ dpc = "record"
    /\ IF dpending = {}
       THEN /\ dresult' = "nil"
            /\ dpc' = "done"
            /\ UNCHANGED <<dcur, dattemptsLeft>>
       ELSE /\ \E m \in dpending : dcur' = m
            /\ dattemptsLeft' = Attempts
            /\ dpc' = "attempt"
            /\ UNCHANGED dresult
    /\ UNCHANGED <<dmode, dqueue, dstored, dbulk, observerSeen, impCounter,
                   dbatches, dpending, dcalls, dtelemetry, dfwd, dseenN, dfwdN>>
    /\ UNCHANGED outsideDrain

\* one attempt, were every call to carry the impressions of all metadatas
RecordAttemptAllBatches ==
    /\ dpc = "attempt"
    /\ \E o \in RecordOutcomes :
          /\ dcalls' = Append(dcalls, [meta |-> dcur, imps |-> dfwd,
                                       outcome |-> o])
          /\ dtelemetry' = Append(dtelemetry, [meta |-> dcur, kind |-> "success"])
          /\ dpending' = dpending \ {dcur}
          /\ dcur' = NoMeta
          /\ dpc' = "record"
          /\ UNCHANGED <<dattemptsLeft, dresult>>
    /\ UNCHANGED <<dmode, dqueue, dstored, dbulk, observerSeen, impCounter,
                   dbatches, dfwd, dseenN, dfwdN>>
    /\ UNCHANGED outsideDrain

\* recordImpressions: one run of the callback inside WithAttempts, and what
\* follows it: Record is called; when the callback returns nil WithAttempts
\* returns nil and the success telemetry is recorded; when it returns an
\* error another attempt is made while some are left, else the error is
\* returned, with the sync-error telemetry for an HTTP error
RecordAttempt ==
    /\ dpc = "attempt"
    /\ \E o \in RecordOutcomes :
          /\ dcalls' = Append(dcalls, [meta |-> dcur, imps |-> dbatches[dcur],
                                       outcome |-> o])
          /\ IF CallbackReturn(o) = "nil"
             THEN /\ dtelemetry' = Append(dtelemetry,
                                          [meta |-> dcur, kind |-> "success"])
                  /\ dpending' = dpending \ {dcur}
                  /\ dcur' = NoMeta
                  /\ dpc' = "record"
                  /\ UNCHANGED <<dattemptsLeft, dresult>>
             ELSE IF dattemptsLeft > 1
             THEN /\ dattemptsLeft' = dattemptsLeft - 1
                  /\ UNCHANGED <<dtelemetry, dpending, dcur, dpc, dresult>>
             ELSE /\ dtelemetry' = IF o = "http"
                                   THEN Append(dtelemetry,
                                            [meta |-> dcur, kind |-> "error"])
                                   ELSE dtelemetry
                  /\ dresult' = "error"
                  /\ dpc' = "done"
                  /\ UNCHANGED <<dattemptsLeft, dpending, dcur>>
    /\ UNCHANGED <<dmode, dqueue, dstored, dbulk, observerSeen, impCounter,
                   dbatches, dfwd, dseenN, dfwdN>>
    /\ UNCHANGED outsideDrain

\* synchronizeImpressions has returned; the next pass starts afresh
DrainReturn ==
    /\ dpc = "done"
    /\ dpc' = "idle"
    /\ dbulk' = 0
    /\ dbatches' = NoBatches
    /\ dpending' = {}
    /\ dcur' = NoMeta
    /\ dattemptsLeft' = 0
    /\ dcalls' = <<>>
    /\ dtelemetry' = <<>>
    /\ dresult' = "none"
    /\ dfwd' = <<>>
    /\ UNCHANGED <<dmode, dqueue, dstored, observerSeen, impCounter, dseenN,
                   dfwdN>>
    /\ UNCHANGED outsideDrain

\* NewImpressionRecordMultiple
InitDrain ==
    /\ dmode = "optimized"
    /\ dqueue = <<>>
    /\ dstored = 0
    /\ dpc = "idle"
    /\ dbulk = 0
    /\ observerSeen = {}
    /\ impCounter = [fp \in Fingerprints |-> 0]
    /\ dbatches = NoBatches
    /\ dpending = {}
    /\ dcur = NoMeta
    /\ dattemptsLeft = 0
    /\ dcalls = <<>>
    /\ dtelemetry = <<>>
    /\ dresult = "none"
    /\ dfwd = <<>>
    /\ dseenN = [fp \in Fingerprints |-> 0]
    /\ dfwdN = [fp \in Fingerprints |-> 0]

NextDrain ==
    \/ DrainConfigure
    \/ DrainEnqueue
    \/ DrainStart
    \/ DrainFetch
    \/ DrainFetchError
    \/ RecordNext
    \/ RecordAttempt
    \/ DrainReturn

\* =====================================================================
\* Endpoint telemetry by time slice
\* (splitio/proxy/storage: TimeslicedProxyEndpointTelemetryImpl)
\* =====================================================================

\* maxTimeSlices and timeSliceWidth given to NewTimeslicedProxyEndpointTelemetry
MaxTimeSlices == 2
TimeSliceWidth == 2
\* observations recorded in one behaviour
MaxObservations == 4

\* readings of clock.Now(); they cover MaxTimeSlices + 1 slices and come in any order
ClockTimes == 0..(TimeSliceWidth * (MaxTimeSlices + 1) - 1)
Endpoints == {"splitChanges"}
LatencyValues == {10}
StatusCodes == {200, 500}
TelProcs == {"t1", "t2"}

NoCounts(S) == [x \in S |-> 0]
NoObservation == [endpoint |-> "", kind |-> "", value |-> 0, timeSlice |-> -1]

\* Go's % truncates towards zero: the remainder has the sign of the dividend
GoRem(a, b) == IF a >= 0 THEN a % b ELSE -((-a) % b)

keyForTimeSlice(t, intervalWidthInSeconds) == t - GoRem(t, intervalWidthInSeconds)

newTimeSliceTelemetry(timeSlice) ==
    [timeSlice |-> timeSlice,
     statusCodes |-> [e \in Endpoints |-> NoCounts(StatusCodes)],
     latencies |-> [e \in Endpoints |-> NoCounts(LatencyValues)]]

\* keys[0:n] of the keys sorted in increasing order
Oldest(keys, n) == {k \in keys : Cardinality({j \in keys : j < k}) < n}

unsafeRolloverNewest(m) ==
    IF Cardinality(DOMAIN m) <= MaxTimeSlices
    THEN m
    ELSE LET n == Cardinality(DOMAIN m) - MaxTimeSlices
             gone == {k \in DOMAIN m : Cardinality({j \in DOMAIN m : j > k}) < n}
         IN  [k \in DOMAIN m \ gone |-> m[k]]

unsafeRollover(m) ==
    IF Cardinality(DOMAIN m) <= MaxTimeSlices
    THEN m
    ELSE LET gone == Oldest(DOMAIN m, Cardinality(DOMAIN m) - MaxTimeSlices)
         IN  [k \in DOMAIN m \ gone |-> m[k]]

\* the map after geHistoricForTS(ts); the bucket it returns is the one of the
\* key of ts, which may already be out of the map
geHistoricForTS(m, ts) ==
    LET timeSlice == keyForTimeSlice(ts, TimeSliceWidth)
        created == [k \in DOMAIN m \cup {timeSlice} |->
                       IF k = timeSlice THEN newTimeSliceTelemetry(timeSlice) ELSE m[k]]
    IN  IF timeSlice \in DOMAIN m
        THEN m
        ELSE IF Cardinality(DOMAIN created) > MaxTimeSlices
             THEN unsafeRollover(created)
             ELSE created

\* callers whose bucket is out of the map once the map is m
Detached(m, p, key) ==
    [q \in TelProcs |->
        IF q = p
        THEN key \notin DOMAIN m
        ELSE tdetached[q] \/ (tpc[q] # "idle" /\ tobs[q].timeSlice \notin DOMAIN m)]

\* lines 315-316 and 322-323: the global record, then the bucket of Now()
Observe(p, ep, kind, value, now) ==
    LET key == keyForTimeSlice(now, TimeSliceWidth)
        after == geHistoricForTS(telemetryByTimeSlice, now)
    IN  /\ telemetryByTimeSlice' = after
        /\ tobs' = [tobs EXCEPT ![p] = [endpoint |-> ep, kind |-> kind,
                                         value |-> value, timeSlice |-> key]]
        /\ tdetached' = Detached(after, p, key)
        /\ recordedKeys' = recordedKeys \cup {key}
        /\ tpc' = [tpc EXCEPT ![p] = kind]
        /\ tcount' = tcount + 1
        /\ treported' = FALSE
        /\ treport' = <<>>

RecordEndpointLatency(p) ==
    /\ tpc[p] = "idle"
    /\ tcount < MaxObservations
    /\ \E ep \in Endpoints, latency \in LatencyValues, now \in ClockTimes :
          /\ globalLatencies' = [globalLatencies EXCEPT ![ep][latency] = @ + 1]
          /\ Observe(p, ep, "latency", latency, now)
    /\ UNCHANGED globalStatusCodes
    /\ UNCHANGED outsideTel

IncrEndpointStatus(p) ==
    /\ tpc[p] = "idle"
    /\ tcount < MaxObservations
    /\ \E ep \in Endpoints, status \in StatusCodes, now \in ClockTimes :
          /\ globalStatusCodes' = [globalStatusCodes EXCEPT ![ep][status] = @ + 1]
          /\ Observe(p, ep, "status", status, now)
    /\ UNCHANGED globalLatencies
    /\ UNCHANGED outsideTel

\* lines 317 and 324: the record in the bucket geHistoricForTS returned
InSlice(p, field) ==
    LET o == tobs[p]
    IN  /\ telemetryByTimeSlice' =
              IF tdetached[p]
              THEN telemetryByTimeSlice
              ELSE [telemetryByTimeSlice EXCEPT
                       ![o.timeSlice][field][o.endpoint][o.value] = @ + 1]
        /\ tpc' = [tpc EXCEPT ![p] = "idle"]
        /\ tobs' = [tobs EXCEPT ![p] = NoObservation]
        /\ tdetached' = [tdetached EXCEPT ![p] = FALSE]
        /\ treported' = FALSE
        /\ treport' = <<>>
        /\ UNCHANGED <<globalLatencies, globalStatusCodes, recordedKeys, tcount>>

RecordLatencyInSlice(p) ==
    /\ tpc[p] = "latency"
    /\ InSlice(p, "latencies")
    /\ UNCHANGED outsideTel

IncrStatusInSlice(p) ==
    /\ tpc[p] = "status"
    /\ InSlice(p, "statusCodes")
    /\ UNCHANGED outsideTel

RECURSIVE SortByTimeSliceNewestFirst(_)
SortByTimeSliceNewestFirst(data) ==
    IF data = {}
    THEN <<>>
    ELSE LET first == CHOOSE d \in data : \A o \in data : d.timeSlice >= o.timeSlice
         IN  <<first>> \o SortByTimeSliceNewestFirst(data \ {first})

RECURSIVE SortByTimeSlice(_)
SortByTimeSlice(data) ==
    IF data = {}
    THEN <<>>
    ELSE LET first == CHOOSE d \in data : \A o \in data : d.timeSlice <= o.timeSlice
         IN  <<first>> \o SortByTimeSlice(data \ {first})

RECURSIVE SumCounts(_, _)
SumCounts(codes, left) ==
    IF left = {}
    THEN 0
    ELSE LET c == CHOOSE x \in left : TRUE
         IN  codes[c] + SumCounts(codes, left \ {c})

\* statusCodeMap.peek: a copy of the map, which has the codes counted so far
peek(codes) == [c \in {x \in DOMAIN codes : codes[x] > 0} |-> codes[c]]

newForResourceCountingLatencies(latencies, statusCodes) ==
    [latencies |-> latencies,
     statusCodes |-> peek(statusCodes),
     requestCount |-> SumCounts(statusCodes, DOMAIN statusCodes)
                      + SumCounts(latencies, DOMAIN latencies)]

newForResource(latencies, statusCodes) ==
    [latencies |-> latencies,
     statusCodes |-> peek(statusCodes),
     requestCount |-> SumCounts(statusCodes, DOMAIN statusCodes)]

formatTimeSeriesData(data) ==
    LET sorted == SortByTimeSlice(data)
    IN  [i \in 1..Len(sorted) |->
            [timeSlice |-> sorted[i].timeSlice,
             resources |-> [e \in Endpoints |->
                 newForResource(sorted[i].latencies[e], sorted[i].statusCodes[e])]]]

TimeslicedReport ==
    /\ ~treported
    /\ treported' = TRUE
    /\ treport' = formatTimeSeriesData(
                      {telemetryByTimeSlice[k] : k \in DOMAIN telemetryByTimeSlice})
    /\ UNCHANGED <<globalLatencies, globalStatusCodes, telemetryByTimeSlice, tpc, tobs,
                   tdetached, recordedKeys, tcount>>
    /\ UNCHANGED outsideTel

InitTel ==
    /\ globalLatencies = [e \in Endpoints |-> NoCounts(LatencyValues)]
    /\ globalStatusCodes = [e \in Endpoints |-> NoCounts(StatusCodes)]
    /\ telemetryByTimeSlice = <<>>
    /\ tpc = [p \in TelProcs |-> "idle"]
    /\ tobs = [p \in TelProcs |-> NoObservation]
    /\ tdetached = [p \in TelProcs |-> FALSE]
    /\ recordedKeys = {}
    /\ tcount = 0
    /\ treported = FALSE
    /\ treport = <<>>

NextTel ==
    \/ \E p \in TelProcs : RecordEndpointLatency(p)
    \/ \E p \in TelProcs : IncrEndpointStatus(p)
    \/ \E p \in TelProcs : RecordLatencyInSlice(p)
    \/ \E p \in TelProcs : IncrStatusInSlice(p)
    \/ TimeslicedReport

\* =====================================================================
\* keyForTimeSlice as a function of any Unix time and width
\* =====================================================================

\* Unix times -MaxKeyTime..MaxKeyTime (time.Time.Unix() is negative before 1970)
MaxKeyTime == 13
\* widths 1..MaxKeyWidth
MaxKeyWidth == 4

KeyTimes == (0 - MaxKeyTime)..MaxKeyTime
KeyWidths == 1..MaxKeyWidth

KeyForTimeSliceCall ==
    /\ \E t \in KeyTimes, w \in KeyWidths :
          /\ ktime' = t
          /\ kwidth' = w
          /\ kkey' = keyForTimeSlice(t, w)
    /\ UNCHANGED outsideKey

InitKey ==
    /\ ktime = 0
    /\ kwidth = 1
    /\ kkey = 0

NextKey == KeyForTimeSliceCall

\* =====================================================================
\* Segment changes from the local database (proxy controllers,
\* fetchSegmentsFromDB)
\* =====================================================================

\* change numbers of the stored segment keys are 1..MaxSegCN
MaxSegCN == 3

SegKeyNames == {"k1", "k2"}
SegSinces == (0 - 1)..MaxSegCN
\* a key of the item: absent, or its last delta
NoSegKey == [present |-> FALSE, changeNumber |-> 0, removed |-> FALSE]
SegKeys ==
    {NoSegKey} \cup [present : {TRUE}, changeNumber : 1..MaxSegCN, removed : BOOLEAN]
SegItems == [SegKeyNames -> SegKeys]
\* segmentCollection.Fetch returned an error
NoSegItem == [n \in SegKeyNames |-> [present |-> FALSE, changeNumber |-> -1, removed |-> FALSE]]

RECURSIVE MaxOf(_)
MaxOf(S) ==
    LET x == CHOOSE y \in S : TRUE
    IN  IF S = {x} THEN x ELSE Max(x, MaxOf(S \ {x}))

fetchSegmentsFromDB(since, item) ==
    IF item = NoSegItem
    THEN [added |-> {}, removed |-> {}, till |-> since, err |-> TRUE]
    ELSE LET newer == {n \in SegKeyNames :
                          item[n].present /\ item[n].changeNumber > since}
             added == {n \in newer : ~item[n].removed}
             removed == IF since > 0 THEN {n \in newer : item[n].removed} ELSE {}
             counted == IF since > 0 THEN newer ELSE added
         IN  [added |-> added, removed |-> removed,
              till |-> MaxOf({since} \cup {item[n].changeNumber : n \in counted}),
              err |-> FALSE]

FetchSegmentsFromDBCall ==
    /\ \E since \in SegSinces, item \in SegItems \cup {NoSegItem} :
          /\ segSince' = since
          /\ segItem' = item
          /\ segResult' = fetchSegmentsFromDB(since, item)
    /\ UNCHANGED outsideSeg

InitSeg ==
    /\ segSince = -1
    /\ segItem = [n \in SegKeyNames |-> NoSegKey]
    /\ segResult = [added |-> {}, removed |-> {}, till |-> -1, err |-> FALSE]

NextSeg == FetchSegmentsFromDBCall

\* =====================================================================
\* Events task (package task, taskPostEvents)
\* =====================================================================

\* events stored in one behaviour
MaxEvents == 3

EventSDKVersions == {"", "go-1"}
EventMachineIPs == {"", "ip-1"}
EventMachineNames == {"", "unknown", "host"}
EventsBulkSizes == 1..MaxEvents
PostOutcomes == {"ok", "error"}

EventMetadatas ==
    [SDKVersion : EventSDKVersions, MachineIP : EventMachineIPs,
     MachineName : EventMachineNames]

\* lines 29-31: the events the loop does not skip
HasOrigin(stored) ==
    stored.Metadata.SDKVersion # "" /\ stored.Metadata.MachineIP # ""

TripleOfKeepingEmptyName(stored) ==
    [sdk |-> stored.Metadata.SDKVersion,
     ip |-> stored.Metadata.MachineIP,
     mname |-> stored.Metadata.MachineName]

\* lines 34-40: the keys of toSend for a stored event
TripleOf(stored) ==
    [sdk |-> stored.Metadata.SDKVersion,
     ip |-> stored.Metadata.MachineIP,
     mname |-> IF stored.Metadata.MachineName = ""
               THEN "unknown"
               ELSE stored.Metadata.MachineName]

\* lines 27-55: toSend[sdk][ip][mname], each bulk in the order popped
GroupEvents(storedEvents) ==
    LET kept == SelectSeq(storedEvents, HasOrigin)
        triples == {TripleOf(kept[i]) : i \in 1..Len(kept)}
    IN  [tr \in triples |->
            LET InGroup(stored) == TripleOf(stored) = tr
                group == SelectSeq(kept, InGroup)
            IN  [i \in 1..Len(group) |-> group[i].Event]]

\* PopN(bulkSize): the first bulkSize stored events, fewer when fewer are stored
PopN(n) == SubSeq(evQueue, 1, Min(n, Len(evQueue)))

\* an SDK posts an event: it is stored with the metadata of its request
EventPush ==
    /\ evPushed < MaxEvents
    /\ \E md \in EventMetadatas :
          evQueue' = Append(evQueue, [Event |-> evPushed + 1, Metadata |-> md])
    /\ evPushed' = evPushed + 1
    /\ UNCHANGED <<epc, evPopped, toSend, evPosts>>
    /\ UNCHANGED outsideEv

\* lines 19-55: pop and group
TaskPostEvents ==
    /\ epc = "idle"
    /\ \E bulkSize \in EventsBulkSizes :
          LET storedEvents == PopN(bulkSize)
          IN  /\ evQueue' = SubSeq(evQueue, Len(storedEvents) + 1, Len(evQueue))
              /\ evPopped' = storedEvents
              /\ toSend' = GroupEvents(storedEvents)
    /\ evPosts' = <<>>
    /\ epc' = "posting"
    /\ UNCHANGED evPushed
    /\ UNCHANGED outsideEv

\* lines 21-25: PopN fails, the run ends with nothing popped
TaskPostEventsPopError ==
    /\ epc = "idle"
    /\ evPopped' = <<>>
    /\ toSend' = <<>>
    /\ evPosts' = <<>>
    /\ UNCHANGED <<evQueue, evPushed, epc>>
    /\ UNCHANGED outsideEv

\* lines 58-66: one Post for a group of toSend, in the order the maps are
\* ranged over; its error is logged
PostBulk ==
    /\ epc = "posting"
    /\ \E tr \in DOMAIN toSend, outcome \in PostOutcomes :
          /\ evPosts' = Append(evPosts, [bulk |-> toSend[tr], sdk |-> tr.sdk,
                                          ip |-> tr.ip, mname |-> tr.mname,
                                          outcome |-> outcome])
          /\ toSend' = [t \in DOMAIN toSend \ {tr} |-> toSend[t]]
    /\ UNCHANGED <<evQueue, evPushed, epc, evPopped>>
    /\ UNCHANGED outsideEv

\* line 68: every group was ranged over
TaskPostEventsReturn ==
    /\ epc = "posting"
    /\ DOMAIN toSend = {}
    /\ epc' = "idle"
    /\ UNCHANGED <<evQueue, evPushed, evPopped, toSend, evPosts>>
    /\ UNCHANGED outsideEv

InitEv ==
    /\ evQueue = <<>>
    /\ evPushed = 0
    /\ epc = "idle"
    /\ evPopped = <<>>
    /\ toSend = <<>>
    /\ evPosts = <<>>

NextEv ==
    \/ EventPush
    \/ TaskPostEvents
    \/ TaskPostEventsPopError
    \/ PostBulk
    \/ TaskPostEventsReturn

\* =====================================================================
\* synchronizeImpressions and the impression listener
\* (impression.go:123-156)
\* =====================================================================

\* the metadatas fetch may return batches for
ListenerMetadatas == {"m1", "m2", "m3"}

\* NewImpressionRecordMultiple: the listener is on or off
ListenerConfigure ==
    /\ lpc = "idle"
    /\ \E enabled \in BOOLEAN : impressionListenerEnabled' = enabled
    /\ UNCHANGED <<lpc, lforListener, lpending, loffered, lqueue, lresult>>
    /\ UNCHANGED outsideLsn

\* synchronizeImpressions, lines 143-146: fetch returns the batches for the
\* listener, one per metadata
ListenerFetch ==
    /\ lpc = "idle"
    /\ \E forListener \in SUBSET ListenerMetadatas : lforListener' = forListener
    /\ lpc' = "record"
    /\ UNCHANGED <<impressionListenerEnabled, lpending, loffered, lqueue, lresult>>
    /\ UNCHANGED outsideLsn

\* lines 143-146: fetch fails and its error is returned
ListenerFetchError ==
    /\ lpc = "idle"
    /\ lresult' = "error"
    /\ lpc' = "done"
    /\ UNCHANGED <<impressionListenerEnabled, lforListener, lpending, loffered,
                   lqueue>>
    /\ UNCHANGED outsideLsn

\* lines 148-154: recordImpressions returns what the callback of WithAttempts
\* returned, then the test of impressionListenerEnabled
ListenerRecord ==
    /\ lpc = "record"
    /\ \E o \in RecordOutcomes :
          IF CallbackReturn(o) # "nil"
          THEN /\ lresult' = "error"
               /\ lpc' = "done"
               /\ UNCHANGED lpending
          ELSE IF impressionListenerEnabled
          THEN /\ lpending' = lforListener
               /\ lpc' = "listener"
               /\ UNCHANGED lresult
          ELSE /\ lresult' = "nil"
               /\ lpc' = "done"
               /\ UNCHANGED lpending
    /\ UNCHANGED <<impressionListenerEnabled, lforListener, loffered, lqueue>>
    /\ UNCHANGED outsideLsn

\* one iteration of sendDataToListener, were a failure to end the loop
SendDataToListenerStopOnError ==
    /\ lpc = "listener"
    /\ \E m \in lpending, encoded \in BOOLEAN, queued \in BOOLEAN :
          /\ loffered' = Append(loffered, [meta |-> m, encoded |-> encoded,
                                            queued |-> encoded /\ queued])
          /\ lqueue' = IF encoded /\ queued THEN lqueue \cup {m} ELSE lqueue
          /\ lpending' = IF encoded /\ queued THEN lpending \ {m} ELSE {}
    /\ UNCHANGED <<impressionListenerEnabled, lpc, lforListener, lresult>>
    /\ UNCHANGED outsideLsn

\* one iteration of sendDataToListener (lines 124-139), the metadatas in any
\* order: json.Marshal, on its error a log and the next metadata;
\* task.QueueImpressionsForListener, its error logged
SendDataToListener ==
    /\ lpc = "listener"
    /\ \E m \in lpending, encoded \in BOOLEAN, queued \in BOOLEAN :
          /\ loffered' = Append(loffered, [meta |-> m, encoded |-> encoded,
                                            queued |-> encoded /\ queued])
          /\ lqueue' = IF encoded /\ queued THEN lqueue \cup {m} ELSE lqueue
          /\ lpending' = lpending \ {m}
    /\ UNCHANGED <<impressionListenerEnabled, lpc, lforListener, lresult>>
    /\ UNCHANGED outsideLsn

\* line 155: the range of sendDataToListener is over, nil is returned
ListenerReturn ==
    /\ lpc = "listener"
    /\ lpending = {}
    /\ lresult' = "nil"
    /\ lpc' = "done"
    /\ UNCHANGED <<impressionListenerEnabled, lforListener, lpending, loffered,
                   lqueue>>
    /\ UNCHANGED outsideLsn

\* synchronizeImpressions has returned; the next pass starts afresh
ListenerDone ==
    /\ lpc = "done"
    /\ lpc' = "idle"
    /\ lforListener' = {}
    /\ lpending' = {}
    /\ loffered' = <<>>
    /\ lqueue' = {}
    /\ lresult' = "none"
    /\ UNCHANGED impressionListenerEnabled
    /\ UNCHANGED outsideLsn

InitLsn ==
    /\ impressionListenerEnabled = FALSE
    /\ lpc = "idle"
    /\ lforListener = {}
    /\ lpending = {}
    /\ loffered = <<>>
    /\ lqueue = {}
    /\ lresult = "none"

NextLsn ==
    \/ ListenerConfigure
    \/ ListenerFetch
    \/ ListenerFetchError
    \/ ListenerRecord
    \/ SendDataToListener
    \/ ListenerReturn
    \/ ListenerDone

\* =====================================================================
\* Update called concurrently (splits.go:87-106), statement by statement
\* =====================================================================

\* calls of Update in one behaviour
MaxUpdates == 2
\* splits in toAdd and toRemove together, at most
MaxItems == 2

ConcUpdaters == {"c1", "c2"}

Effect(u, kind) == [call |-> ccall[u], by |-> u, kind |-> kind]

\* lines 90-97: an empty update returns at once; otherwise the views and
\* toPersist are built and the caller reaches p.mtx.Lock()
ConcUpdateEnter(u) ==
    /\ cpc[u] = "idle"
    /\ ccalls < MaxUpdates
    /\ \E n \in 0..MaxItems :
          /\ citems' = [citems EXCEPT ![u] = n]
          /\ cpc' = [cpc EXCEPT ![u] = IF n = 0 THEN "idle" ELSE "lock"]
          /\ ccontended' = (ccontended \/ (n # 0 /\ cmtx # NoProc))
    /\ ccalls' = ccalls + 1
    /\ ccall' = [ccall EXCEPT ![u] = ccalls + 1]
    /\ UNCHANGED <<cmtx, ceffects>>
    /\ UNCHANGED outsideConc

\* p.mtx.Lock(), were it to return whoever holds the mutex
MtxLockNoWait(u) ==
    /\ cpc[u] = "lock"
    /\ cmtx' = u
    /\ cpc' = [cpc EXCEPT ![u] = "snapshot"]
    /\ UNCHANGED <<citems, ccall, ccalls, ccontended, ceffects>>
    /\ UNCHANGED outsideConc

\* line 99: p.mtx.Lock() returns once nobody holds the mutex
MtxLock(u) ==
    /\ cpc[u] = "lock"
    /\ cmtx = NoProc
    /\ cmtx' = u
    /\ cpc' = [cpc EXCEPT ![u] = "snapshot"]
    /\ UNCHANGED <<citems, ccall, ccalls, ccontended, ceffects>>
    /\ UNCHANGED outsideConc

\* line 100: p.snapshot.Update
ConcSnapshotUpdate(u) ==
    /\ cpc[u] = "snapshot"
    /\ ceffects' = Append(ceffects, Effect(u, "snapshot"))
    /\ cpc' = [cpc EXCEPT ![u] = "recipes"]
    /\ UNCHANGED <<cmtx, citems, ccall, ccalls, ccontended>>
    /\ UNCHANGED outsideConc

\* line 101: p.recipes.AddChanges
ConcAddChanges(u) ==
    /\ cpc[u] = "recipes"
    /\ ceffects' = Append(ceffects, Effect(u, "recipes"))
    /\ cpc' = [cpc EXCEPT ![u] = "disk"]
    /\ UNCHANGED <<cmtx, citems, ccall, ccalls, ccontended>>
    /\ UNCHANGED outsideConc

\* lines 102-104: p.disk.Add of the next item of toPersist
ConcDiskAdd(u) ==
    /\ cpc[u] = "disk"
    /\ citems[u] > 0
    /\ ceffects' = Append(ceffects, Effect(u, "disk"))
    /\ citems' = [citems EXCEPT ![u] = @ - 1]
    /\ UNCHANGED <<cmtx, cpc, ccall, ccalls, ccontended>>
    /\ UNCHANGED outsideConc

\* line 105: p.mtx.Unlock(), every item persisted
MtxUnlock(u) ==
    /\ cpc[u] = "disk"
    /\ citems[u] = 0
    /\ cmtx' = IF cmtx = u THEN NoProc ELSE cmtx
    /\ cpc' = [cpc EXCEPT ![u] = "idle"]
    /\ UNCHANGED <<citems, ccall, ccalls, ccontended, ceffects>>
    /\ UNCHANGED outsideConc

InitConc ==
    /\ cmtx = NoProc
    /\ cpc = [u \in ConcUpdaters |-> "idle"]
    /\ citems = [u \in ConcUpdaters |-> 0]
    /\ ccall = [u \in ConcUpdaters |-> 0]
    /\ ccalls = 0
    /\ ccontended = FALSE
    /\ ceffects = <<>>

NextConc ==
    \/ \E u \in ConcUpdaters : ConcUpdateEnter(u)
    \/ \E u \in ConcUpdaters : MtxLock(u)
    \/ \E u \in ConcUpdaters : ConcSnapshotUpdate(u)
    \/ \E u \in ConcUpdaters : ConcAddChanges(u)
    \/ \E u \in ConcUpdaters : ConcDiskAdd(u)
    \/ \E u \in ConcUpdaters : MtxUnlock(u)

\* ------------------------------------------------------------------
\* stats.LatencyStorage (splitio/stats/storage.go)
\* ------------------------------------------------------------------

\* const lastStoredLatencies = 500
lastStoredLatencies == 500

\* calls of Add explored
MaxAdds == 4

\* the metric names and the slices handed to Add: a slice of n values
\* which starts after `from`, so that every position of it is told apart
MetricNames == {"sdk.mySegments", "sdk.splitChanges"}
SliceLengths == {1, 300}
SliceStarts == {1000, 2000}
SliceOf(from, n) == [i \in 1..n |-> from + i]

\* what a mutation of Add would keep: the oldest values
AddKeepingOldest(stored, value) ==
    LET appended == stored \o value
    IN  IF Len(appended) > lastStoredLatencies
           THEN SubSeq(appended, 1, lastStoredLatencies)
           ELSE appended

\* the slice Add leaves for a name: append(l.latencies[name], value...),
\* then [start:] once it is longer than lastStoredLatencies
Add(stored, value) ==
    LET appended == stored \o value
    IN  IF Len(appended) > lastStoredLatencies
           THEN LET start == Len(appended) - lastStoredLatencies
                IN  SubSeq(appended, start + 1, Len(appended))
           ELSE appended

\* LatencyStorage.Add(name, value), all of it under l.mutext
LatencyStorageAdd ==
    /\ addCalls < MaxAdds
    /\ \E name \in MetricNames, from \in SliceStarts, n \in SliceLengths :
          /\ storedLatencies' =
                [storedLatencies EXCEPT ![name] = Add(@, SliceOf(from, n))]
          /\ addedLatencies' =
                [addedLatencies EXCEPT ![name] = @ \o SliceOf(from, n)]
    /\ addCalls' = addCalls + 1
    /\ UNCHANGED outsideLat

\* Initialize(): latencies: make(map[string][]int64)
InitLat ==
    /\ storedLatencies = [name \in MetricNames |-> <<>>]
    /\ addedLatencies = [name \in MetricNames |-> <<>>]
    /\ addCalls = 0

NextLat == LatencyStorageAdd

\* ------------------------------------------------------------------
\* LatencyMiddleware.Track (splitio/proxy/controllers/middleware)
\* ------------------------------------------------------------------

\* requests explored, and the longest a handler takes
MaxTracked == 3
MaxHandlerTime == 2

\* c.Keys holds nothing under EndpointKey
NoValue == [type |-> "none", val |-> 0]

\* what a handler stores under EndpointKey: the sdk handlers store their
\* endpoint constant, an int; another handler may store another type
EndpointIds == {0, 1, 2}
StoredValues ==
    {[type |-> "int", val |-> e] : e \in EndpointIds}
        \cup {[type |-> "string", val |-> 0]}

\* what a mutation of Track would record: whatever is stored
TrackedAnyValue(endpoint, latency) ==
    IF endpoint # NoValue
       THEN <<[endpoint |-> endpoint.val, latency |-> latency]>>
       ELSE <<>>

\* endpoint, exists := c.Get(EndpointKey);
\* if asInt, ok := endpoint.(int); exists && ok { RecordEndpointLatency(asInt, ...) }
Tracked(endpoint, latency) ==
    LET exists == endpoint # NoValue
        ok == endpoint.type = "int"
    IN  IF exists /\ ok
           THEN <<[endpoint |-> endpoint.val, latency |-> latency]>>
           ELSE <<>>

\* Track: before := time.Now(); c.Next()
TrackBefore ==
    /\ mpc = "idle"
    /\ mrequests < MaxTracked
    /\ mrequests' = mrequests + 1
    /\ mbefore' = mnow
    /\ mpc' = "next"
    /\ UNCHANGED <<mkeys, mhandled, mnow, mtracked>>
    /\ UNCHANGED outsideMw

\* the handler: ctx.Set(tmw.EndpointKey, ...) as its first statement
HandlerSet ==
    /\ mpc = "next"
    /\ ~mhandled
    /\ mkeys = NoValue
    /\ \E v \in StoredValues : mkeys' = v
    /\ UNCHANGED <<mpc, mhandled, mbefore, mnow, mtracked, mrequests>>
    /\ UNCHANGED outsideMw

\* the rest of the handler, which takes some time; c.Next() returns
HandlerComplete ==
    /\ mpc = "next"
    /\ ~mhandled
    /\ \E d \in 0..MaxHandlerTime : mnow' = mnow + d
    /\ mhandled' = TRUE
    /\ mpc' = "after"
    /\ UNCHANGED <<mkeys, mbefore, mtracked, mrequests>>
    /\ UNCHANGED outsideMw

\* Track after c.Next(): c.Get, the type assertion and the record
TrackAfter ==
    /\ mpc = "after"
    /\ mtracked' = mtracked \o Tracked(mkeys, mnow - mbefore)
    /\ mpc' = "returned"
    /\ UNCHANGED <<mkeys, mhandled, mbefore, mnow, mrequests>>
    /\ UNCHANGED outsideMw

\* the next request comes with a new gin.Context
TrackDone ==
    /\ mpc = "returned"
    /\ mpc' = "idle"
    /\ mkeys' = NoValue
    /\ mhandled' = FALSE
    /\ mtracked' = <<>>
    /\ UNCHANGED <<mbefore, mnow, mrequests>>
    /\ UNCHANGED outsideMw

InitMw ==
    /\ mpc = "idle"
    /\ mkeys = NoValue
    /\ mhandled = FALSE
    /\ mbefore = 0
    /\ mnow = 0
    /\ mtracked = <<>>
    /\ mrequests = 0

NextMw ==
    \/ TrackBefore
    \/ HandlerSet
    \/ HandlerComplete
    \/ TrackAfter
    \/ TrackDone

\* ------------------------------------------------------------------
\* newForResource while the handlers count status codes
\* (splitio/proxy/controllers.go)
\* ------------------------------------------------------------------

\* increments explored
MaxIncrs == 3

NoEntry == [statusCodes |-> <<>>, requestCount |-> 0]

\* timesliced.statusCodes.IncrEndpointStatus(endpoint, status): the count of
\* the code goes up by one; the bucket is reached outside t.mutex
StatusCodeIncr ==
    /\ scIncrs < MaxIncrs
    /\ scIncrs' = scIncrs + 1
    /\ \E status \in StatusCodes :
          scCodes' = [scCodes EXCEPT ![status] = @ + 1]
    /\ UNCHANGED <<scpc, scPending, scCount, scEntry>>
    /\ UNCHANGED outsideSc

\* newForResource: var count int64, and the range over statusCodes.codes
\* starts; TimeslicedReport has released t.mutex by now
ForResourceBegin ==
    /\ scpc = "idle"
    /\ scpc' = "sum"
    /\ scCount' = 0
    /\ scPending' = StatusCodes
    /\ UNCHANGED <<scCodes, scEntry, scIncrs>>
    /\ UNCHANGED outsideSc

\* one iteration of the range loop, in the order the map gives:
\* count += partialCount, read without the lock of the map
ForResourceSum ==
    /\ scpc = "sum"
    /\ scPending # {}
    /\ \E status \in scPending :
          /\ scCount' = scCount + scCodes[status]
          /\ scPending' = scPending \ {status}
    /\ UNCHANGED <<scCodes, scpc, scEntry, scIncrs>>
    /\ UNCHANGED outsideSc

\* the struct literal: StatusCodes: statusCodes.peek(), RequestCount: int(count)
ForResourcePeek ==
    /\ scpc = "sum"
    /\ scPending = {}
    /\ scEntry' = [statusCodes |-> peek(scCodes), requestCount |-> scCount]
    /\ scpc' = "done"
    /\ UNCHANGED <<scCodes, scPending, scCount, scIncrs>>
    /\ UNCHANGED outsideSc

\* the entry goes into the report
ForResourceReturn ==
    /\ scpc = "done"
    /\ scpc' = "idle"
    /\ UNCHANGED <<scCodes, scPending, scCount, scEntry, scIncrs>>
    /\ UNCHANGED outsideSc

InitSc ==
    /\ scCodes = NoCounts(StatusCodes)
    /\ scpc = "idle"
    /\ scPending = {}
    /\ scCount = 0
    /\ scEntry = NoEntry
    /\ scIncrs = 0

NextSc ==
    \/ StatusCodeIncr
    \/ ForResourceBegin
    \/ ForResourceSum
    \/ ForResourcePeek
    \/ ForResourceReturn

Init ==
    /\ InitImp /\ InitStore /\ InitSdk /\ InitOps /\ InitDrain
    /\ InitTel /\ InitKey /\ InitSeg /\ InitEv /\ InitLsn /\ InitConc /\ InitLat /\ InitMw /\ InitSc

SpecImp == Init /\ [][NextImp]_vars

SpecDeliver == Init /\ [][NextDeliver]_vars

SpecStoreSeq == Init /\ [][NextStoreSeq]_vars

SpecStore == Init /\ [][NextStore]_vars

SpecSdk == Init /\ [][NextSdk]_vars

SpecStoreUpd == Init /\ [][NextStoreUpd]_vars

SpecStoreOps == Init /\ [][NextStoreOps]_vars

SpecDrain == Init /\ [][NextDrain]_vars

SpecTel == Init /\ [][NextTel]_vars

SpecKey == Init /\ [][NextKey]_vars

SpecSeg == Init /\ [][NextSeg]_vars

SpecEv == Init /\ [][NextEv]_vars

SpecLsn == Init /\ [][NextLsn]_vars

SpecConc == Init /\ [][NextConc]_vars

SpecLat == Init /\ [][NextLat]_vars

SpecMw == Init /\ [][NextMw]_vars

SpecSc == Init /\ [][NextSc]_vars




\* the calls inside synchronizeImpressions (pop from queue + POST)
InDrain == {p \in Procs : pc[p] \in {"fetch", "record"}}
\* the flushes between their successful request and their return
HoldsGate == {p \in FlushProcs : pc[p] \in {"loop", "fetch", "record", "finish"}}

(***************************************************************************)
(* Claims about the impression drain.                                      *)
(***************************************************************************)

\* C1: no scheduled SynchronizeImpressions call and FlushImpressions call are
\* inside synchronizeImpressions (pop from queue + POST) at the same time.
C1_DrainsNeverOverlap ==
    \A s \in SyncProcs : \A f \in FlushProcs : ~({s, f} \subseteq InDrain)

\* C2: of two concurrent FlushImpressions calls at most one holds the gate and
\* drains; a call that returns the busy error was denied by the other flush,
\* which held the gate, and has popped nothing and posted nothing.
C2_OneFlushDrains ==
    /\ Cardinality(HoldsGate) <= 1
    /\ \A f \in FlushProcs :
          /\ f \in HoldsGate => impressionsRunning /\ gateOwner = f
          /\ result[f] = "busy" =>
                /\ pc[f] = "done"
                /\ blockedBy[f] \in FlushProcs \ {f}
                /\ popped[f] = {}
                /\ recordCalls[f] = 0
                /\ held[f] = {}

\* a flush was denied while the other flush is still draining
C2_Witness ==
    \E f \in FlushProcs : \E g \in FlushProcs \ {f} :
        /\ result[f] = "busy"
        /\ blockedBy[f] = g
        /\ g \in HoldsGate
        /\ popped[g] # {}

\* C3: a SynchronizeImpressions call that finds the Impressions operation
\* running returns nil in that very step, without popping and without posting;
\* and no step of a SynchronizeImpressions call changes the gate.
C3_SyncSkipsWhenRunning ==
    [][\A s \in SyncProcs :
          /\ (pc[s] = "idle" /\ pc'[s] # "idle" /\ impressionsRunning) =>
                /\ pc'[s] = "done"
                /\ result'[s] = "nil"
                /\ queue' = queue
                /\ posted' = posted
                /\ popped'[s] = {}
                /\ recordCalls'[s] = 0
          /\ pc'[s] # pc[s] =>
                /\ impressionsRunning' = impressionsRunning
                /\ gateOwner' = gateOwner]_vars

\* a scheduled sync was skipped while a flush had impressions in hand
C3_Witness ==
    \E s \in SyncProcs : \E f \in FlushProcs :
        /\ sawRunning[s]
        /\ pc[s] = "done"
        /\ result[s] = "nil"
        /\ f \in InDrain
        /\ queue # <<>>

\* ---------------------------------------------------------------------------
\* Proxy split storage
\* ---------------------------------------------------------------------------

\* the splits of a payload laid over a mirror: an ARCHIVED split deletes its
\* name, any other split replaces it
ApplySplits(data, splits) ==
    [n \in Names |->
        IF \E sp \in splits : sp.name = n /\ sp.status = "ARCHIVED" THEN NoSplit
        ELSE IF \E sp \in splits : sp.name = n
        THEN LET sp == CHOOSE x \in splits : x.name = n
             IN [changeNumber |-> sp.changeNumber, status |-> sp.status]
        ELSE data[n]]

\* the names a payload carries
NamesOf(splits) == {sp.name : sp \in splits}

\* C4: the storage's change number never decreases: no Update, whatever the
\* changeNumber it is called with, leaves the mirror's till lower than it was.
C4_ChangeNumberNeverDecreases == [][snapshotTill' >= snapshotTill]_vars

\* C5: a ChangesSince(since) with since >= 0 that is answered from the cache
\* returns till >= since and only splits whose changeNumber is above since.
C5_SinceTillContract ==
    (rpc = "done" /\ rsince >= 0 /\ rresult.kind = "payload")
        => /\ rresult.till >= rsince
           /\ \A sp \in rresult.splits : sp.changeNumber > rsince

C7_ReadIsBeforeOrAfter == rpc = "done" => rresult \in rcands

\* C8: when a reader has been given a name by the recipe cache, the mirror it
\* then asks holds that name, at the version of the Update whose recipe gave
\* the name or at a later one.
C8_RecipeNamesAreInMirror ==
    rpc = "fetchMany"
        => \A n \in rsummary.updated :
              /\ snapshotData[n] # NoSplit
              /\ snapshotData[n].changeNumber >= rseen[n]

\* C9: ChangesSince(-1) returns since -1, the mirror's change number as till
\* and exactly the mirror's splits, each once; on the storage as constructed
\* that is till -1 and no split, and after a first Update adding A and B at cn
\* it is till cn and the splits A and B.
C9_AllSinceMinusOne ==
    (rpc = "done" /\ rsince = 0 - 1)
        => /\ rresult.kind = "payload"
           /\ rresult.since = 0 - 1
           /\ rresult.till = snapshotTill
           /\ NamesOf(rresult.splits) = {n \in Names : snapshotData[n] # NoSplit}
           /\ Cardinality(rresult.splits) = Cardinality(NamesOf(rresult.splits))
           /\ \A sp \in rresult.splits :
                 /\ sp.status = "ACTIVE"
                 /\ sp.changeNumber = snapshotData[sp.name].changeNumber
           /\ highest = 0 - 1
                 => rresult.till = 0 - 1 /\ rresult.splits = {}
           /\ (Len(recipes) = 1 /\ recipes[1].updated = {"A", "B"}
                                /\ recipes[1].removed = {})
                 => /\ rresult.till = recipes[1].cn
                    /\ NamesOf(rresult.splits) = {"A", "B"}

\* everything is asked of a storage that holds A and B after one Update
C9_Witness ==
    /\ rpc = "done" /\ rsince = 0 - 1
    /\ Len(recipes) = 1 /\ recipes[1].updated = {"A", "B"}
    /\ rresult.till = MaxCN
    /\ Cardinality(rresult.splits) = 2

\* C10: a split added by one Update and removed by a later one is, for every
\* covered since below the removal's change number, in the answer of
\* ChangesSince(since) exactly once, with status ARCHIVED, and the answer's
\* till is the latest change number.
C10_RemovedSplitIsArchivedOnce ==
    (rpc = "done" /\ rsince >= 0
                  /\ FetchSinceCached(recipes, recipeFloor, rsince))
        => \A n \in Names :
              (removedAt[n] # 0 /\ rsince < removedAt[n])
                  => /\ rresult.kind = "payload"
                     /\ Cardinality({sp \in rresult.splits : sp.name = n}) = 1
                     /\ \A sp \in rresult.splits :
                           sp.name = n => sp.status = "ARCHIVED"
                     /\ rresult.till = highest

\* C11: polling at the latest change number is a fixed point: when the last
\* Update carried cn, ChangesSince(cn) answers the payload {cn, cn, no split}
\* and no error.
C11_PollAtLatestIsFixedPoint ==
    (rpc = "done" /\ rsince >= 0 /\ rsince = snapshotTill)
        => rresult = Payload(rsince, rsince, {})

\* ---------------------------------------------------------------------------
\* The sdk-server controller
\* ---------------------------------------------------------------------------

\* C12: when the storage answers ErrSummaryNotCached the handler calls the
\* fetcher exactly once, with the since of the request, and on its success
\* returns its payload with 200 and registers that payload as an older change
\* number; on any other storage error it calls no fetcher, registers nothing
\* and answers 500.
C12_FallbackOnlyOnNotCached ==
    hpc = "done"
        => /\ herr = "notcached"
                => /\ fetchCalls = <<hsince>>
                   /\ hret = "ok"
                         => /\ hstatus = 200
                            /\ hbody.src = "upstream"
                            /\ registered = <<hbody>>
           /\ herr = "other"
                => /\ fetchCalls = <<>>
                   /\ registered = <<>>
                   /\ hstatus = 500
                   /\ hret = "error"

\* a recipe miss answered by the upstream, in a second request
C12_Witness ==
    /\ hpc = "done" /\ herr = "notcached" /\ hret = "ok"
    /\ hstatus = 200 /\ registered = <<hbody>> /\ hbody.till > hsince
    /\ served = 2 /\ statusCount[500] = 1

\* ---------------------------------------------------------------------------
\* The writing calls of the proxy split storage
\* ---------------------------------------------------------------------------

\* C13: an Update whose two lists are empty changes nothing, whatever its
\* changeNumber: the mirror's splits, the storage change number, the recipes
\* and the persistent collection stay as they were.
C13_EmptyUpdateIsNoOp ==
    [][(lastCall'.op = "Update" /\ lastCall'.empty)
          => UNCHANGED <<snapshotData, snapshotTill, recipes, recipeFloor,
                         disk>>]_vars

\* an empty Update has been made on a storage that holds splits and
\* recipes, with a changeNumber other than the stored one
C13_Witness ==
    /\ lastCall.op = "Update" /\ lastCall.empty
    /\ lastCall.cn > snapshotTill
    /\ Len(recipes) >= 1
    /\ snapshotData # NoData

\* C14: only Update changes the mirror's set of splits, the content of a
\* stored split or the storage change number.
C14_OnlyUpdateWritesTheMirror ==
    [][lastCall'.op # "Update"
          => UNCHANGED <<snapshotData, snapshotKilled, snapshotTill>>]_vars

\* C15: the storage change number is the greatest changeNumber of the splits
\* ever passed to Update, added or removed.
C15_ChangeNumberIsMaxObserved == snapshotTill = observed

\* ---------------------------------------------------------------------------
\* The drain pass: deduplication, grouping, attempts, telemetry
\* ---------------------------------------------------------------------------

\* the Record calls of this pass made for metadata m, in order
CallsFor(m) == SelectSeq(dcalls, LAMBDA c : c.meta = m)
\* the telemetry calls of this pass made for metadata m, of one kind
TelemetryFor(m, kind) ==
    SelectSeq(dtelemetry, LAMBDA t : t.meta = m /\ t.kind = kind)
\* the metadatas whose loop iteration is over
Posted == {m \in Metadatas : CallsFor(m) # <<>> /\ m # dcur}

C17_OneRecordPerMetadata ==
    dpc = "done" /\ dresult = "nil"
        => \A m \in Metadatas :
              LET mine == {imp \in SeqToSet(dfwd) : imp.meta = m}
              IN /\ Len(CallsFor(m)) = IF mine = {} THEN 0 ELSE 1
                 /\ \A i \in DOMAIN CallsFor(m) :
                       SeqToSet(CallsFor(m)[i].imps) = mine

\* a pass that posted two impressions of one metadata together and one of
\* the other apart
C17_Witness ==
    /\ dpc = "done" /\ dresult = "nil"
    /\ Len(dcalls) = 2 /\ dcalls[1].meta # dcalls[2].meta
    /\ Len(dfwd) = 3
    /\ \E i \in 1..2 : Len(dcalls[i].imps) = 2

\* C18: a batch whose Record fails is posted again, up to Attempts calls in
\* all: a batch is done after its first successful call, or after Attempts
\* failed ones.
C18_RetriesUpToThreeAttempts ==
    \A m \in Posted :
        LET cs == CallsFor(m)
        IN /\ Len(cs) <= Attempts
           /\ \A i \in DOMAIN cs : cs[i].outcome = "ok" => i = Len(cs)
           /\ cs[Len(cs)].outcome # "ok" => Len(cs) = Attempts

\* C19: when every attempt to post a batch failed, synchronizeImpressions
\* returns an error.
C19_FinalErrorIsSurfaced ==
    (dpc = "done" /\ \E m \in Metadatas :
                        /\ CallsFor(m) # <<>>
                        /\ \A i \in DOMAIN CallsFor(m) :
                              CallsFor(m)[i].outcome # "ok")
        => dresult = "error"

\* C20: the success telemetry of a batch is recorded only when its POST
\* succeeded, and the sync-error telemetry is recorded when its POST failed
\* with an HTTP error.
C20_TelemetryFollowsOutcome ==
    \A m \in Posted :
        LET cs == CallsFor(m)
        IN /\ TelemetryFor(m, "success") # <<>>
                => cs[Len(cs)].outcome = "ok"
           /\ cs[Len(cs)].outcome = "http"
                => TelemetryFor(m, "error") # <<>>

\* =====================================================================
\* Claims on the endpoint telemetry
\* =====================================================================

LiveKeys == DOMAIN telemetryByTimeSlice

\* the n greatest of a set of keys (all of them when there are fewer than n)
Greatest(keys, n) == {k \in keys : Cardinality({j \in keys : j > k}) < n}

TelIdle == \A p \in TelProcs : tpc[p] = "idle"

\* C21: after any sequence of RecordEndpointLatency / IncrEndpointStatus
\* calls, whatever their timestamps and interleaving, the live bucket keys
\* are at most maxTimeSlices and are exactly the maxTimeSlices greatest keys
\* recorded so far, and a key that leaves the map is smaller than every key
\* that stays.
C21_LiveKeysAreTheGreatest ==
    /\ [](/\ Cardinality(LiveKeys) <= MaxTimeSlices
          /\ LiveKeys = Greatest(recordedKeys, MaxTimeSlices))
    /\ [][\A gone \in LiveKeys \ LiveKeys' : \A kept \in LiveKeys' : gone < kept]_vars

\* more keys were recorded than the map may hold, the last of them older than
\* every retained one, and the map is full
C21_Witness ==
    /\ Cardinality(recordedKeys) > MaxTimeSlices
    /\ Cardinality(LiveKeys) = MaxTimeSlices
    /\ \E p \in TelProcs : tdetached[p]

\* C22: when every observation so far was made on one endpoint inside one
\* time slice, TimeslicedReport returns a single entry for that slice whose
\* resource has the latencies recorded, the status codes counted, and a
\* requestCount equal to the number of status codes counted (n for n
\* requests), whatever the number of latencies recorded.
C22_OneSliceReport ==
    \A k \in recordedKeys, e \in Endpoints :
        (treported /\ TelIdle /\ recordedKeys = {k}) =>
            /\ Len(treport) = 1
            /\ treport[1].timeSlice = k
            /\ treport[1].resources[e].latencies = globalLatencies[e]
            /\ treport[1].resources[e].statusCodes = peek(globalStatusCodes[e])
            /\ treport[1].resources[e].requestCount =
                   SumCounts(globalStatusCodes[e], StatusCodes)

\* two requests in one slice (two latencies, two status codes) and the report
C22_Witness ==
    /\ treported
    /\ TelIdle
    /\ Cardinality(recordedKeys) = 1
    /\ Len(treport) = 1
    /\ \E e \in Endpoints :
          /\ SumCounts(treport[1].resources[e].latencies, LatencyValues) = 2
          /\ treport[1].resources[e].requestCount = 2

\* C27: when RecordEndpointLatency or IncrEndpointStatus returns, its
\* observation is in the global layer and in the bucket of its time slice,
\* and that bucket is in the map, whatever the order of the timestamps.
C27_ObservationIsInLiveBucket ==
    [][\A p \in TelProcs :
          (tpc[p] # "idle" /\ tpc'[p] = "idle") =>
              LET o == tobs[p]
              IN  /\ o.timeSlice \in LiveKeys'
                  /\ IF o.kind = "latency"
                     THEN /\ globalLatencies'[o.endpoint][o.value] >= 1
                          /\ telemetryByTimeSlice'[o.timeSlice].latencies[o.endpoint][o.value] >= 1
                     ELSE /\ globalStatusCodes'[o.endpoint][o.value] >= 1
                          /\ telemetryByTimeSlice'[o.timeSlice].statusCodes[o.endpoint][o.value] >= 1]_vars

\* =====================================================================
\* Claim on keyForTimeSlice
\* =====================================================================

SegNewer == {n \in SegKeyNames : segItem[n].present /\ segItem[n].changeNumber > segSince}

\* C23: fetchSegmentsFromDB(since, name) that finds the segment returns, for
\* since < 0, no removed key and a till that is the maximum of since and the
\* change numbers of the non-removed deltas; for every since >= 0, since = 0
\* included, removed is every removed delta newer than since, added every
\* non-removed one, and till the greatest change number among all the deltas
\* newer than since (since when there is none).
C23_SegmentDeltas ==
    ~segResult.err =>
        /\ segResult.added = {n \in SegNewer : ~segItem[n].removed}
        /\ segSince < 0 =>
              /\ segResult.removed = {}
              /\ segResult.till =
                     MaxOf({segSince} \cup {segItem[n].changeNumber :
                                               n \in {m \in SegNewer : ~segItem[m].removed}})
        /\ segSince >= 0 =>
              /\ segResult.removed = {n \in SegNewer : segItem[n].removed}
              /\ segResult.till =
                     MaxOf({segSince} \cup {segItem[n].changeNumber : n \in SegNewer})

\* =====================================================================
\* Claims on the events task
\* =====================================================================

\* the Post calls of the run that carry the event
PostsOf(event) ==
    {i \in 1..Len(evPosts) : event \in SeqToSet(evPosts[i].bulk)}

\* the Post calls of the run made for a triple
PostsFor(tr) ==
    {i \in 1..Len(evPosts) :
        evPosts[i].sdk = tr.sdk /\ evPosts[i].ip = tr.ip /\ evPosts[i].mname = tr.mname}

\* C24: a finished run of taskPostEvents has posted exactly the popped events
\* whose sdkVersion and machineIP are both non-empty, each of them in exactly
\* one Post call, made for its (sdkVersion, machineIP, machineName) with an
\* empty machineName replaced by "unknown"; there is one Post per distinct
\* triple and none with an empty bulk.
C24_PostsArePoppedEventsByTriple ==
    (epc = "idle") =>
        /\ \A i \in 1..Len(evPopped) :
              LET stored == evPopped[i]
              IN  IF HasOrigin(stored)
                  THEN /\ Cardinality(PostsOf(stored.Event)) = 1
                       /\ PostsOf(stored.Event) \subseteq
                              PostsFor([sdk |-> stored.Metadata.SDKVersion,
                                        ip |-> stored.Metadata.MachineIP,
                                        mname |-> IF stored.Metadata.MachineName = ""
                                                  THEN "unknown"
                                                  ELSE stored.Metadata.MachineName])
                  ELSE PostsOf(stored.Event) = {}
        /\ \A i \in 1..Len(evPosts) :
              /\ evPosts[i].bulk # <<>>
              /\ SeqToSet(evPosts[i].bulk) \subseteq
                     {evPopped[j].Event : j \in 1..Len(evPopped)}
              /\ \A j \in 1..Len(evPosts) :
                    (evPosts[j].sdk = evPosts[i].sdk /\ evPosts[j].ip = evPosts[i].ip
                     /\ evPosts[j].mname = evPosts[i].mname) => j = i

\* a finished run that popped three events: one skipped, one with an empty
\* machine name and one named "unknown", the last two posted together
C24_Witness ==
    /\ epc = "idle"
    /\ Len(evPopped) = 3
    /\ \E i, j, k \in 1..3 :
          /\ ~HasOrigin(evPopped[i])
          /\ HasOrigin(evPopped[j]) /\ evPopped[j].Metadata.MachineName = ""
          /\ HasOrigin(evPopped[k]) /\ evPopped[k].Metadata.MachineName = "unknown"
    /\ Len(evPosts) = 1
    /\ Len(evPosts[1].bulk) = 2
    /\ evPosts[1].mname = "unknown"

\* C29: a failed Post of a bulk of events is tried again, up to Attempts
\* calls for the bulk, before the bulk is given up.
C29_FailedPostIsRetried ==
    (epc = "idle") =>
        \A i \in 1..Len(evPosts) :
            evPosts[i].outcome = "error" =>
                \E j \in 1..Len(evPosts) :
                    /\ j # i
                    /\ evPosts[j].bulk = evPosts[i].bulk
                    /\ (evPosts[j].outcome = "ok"
                        \/ Cardinality({k \in 1..Len(evPosts) :
                                          evPosts[k].bulk = evPosts[i].bulk}) = Attempts)

\* =====================================================================
\* Claim on the answers of the sdk-server handlers
\* =====================================================================

\* the status the claim gives to a finished call
StatusFor(call) ==
    IF ~call.failed
    THEN 200
    ELSE IF call.endpoint = "segmentChanges" THEN 404 ELSE 500

\* C25: every invocation of SplitChanges, SegmentChanges and MySegments
\* writes exactly one HTTP response and increments exactly one status-code
\* counter, both with the same code: 200 on success, 500 when the split
\* storage or the segments-for-key lookup fails, 404 when the segment lookup
\* fails.
C25_OneResponseOneCounter ==
    hpc \in {"done", "answered"} =>
        /\ hwritten = <<StatusFor(hcall)>>
        /\ hcounted = <<StatusFor(hcall)>>

\* =====================================================================
\* Claim on the impression listener
\* =====================================================================

\* C26: with the listener enabled, a batch that fails to encode or to be
\* queued for the listener never makes synchronizeImpressions return an
\* error and never keeps the batches of the other metadatas from being
\* offered; with the listener disabled nothing is queued.
C26_ListenerFailureIsContained ==
    /\ (lpc = "done" /\ impressionListenerEnabled /\ loffered # <<>>) =>
          /\ lresult = "nil"
          /\ {loffered[i].meta : i \in 1..Len(loffered)} = lforListener
    /\ (lpc = "done" /\ impressionListenerEnabled /\ lresult = "nil") =>
          /\ Len(loffered) = Cardinality(lforListener)
          /\ lqueue = {loffered[i].meta : i \in {j \in 1..Len(loffered) :
                                                    loffered[j].queued}}
    /\ ~impressionListenerEnabled => (lqueue = {} /\ loffered = <<>>)

\* a pass with the listener on in which the first batch offered failed and
\* the second one was queued
C26_Witness ==
    /\ lpc = "done"
    /\ impressionListenerEnabled
    /\ lresult = "nil"
    /\ Len(loffered) = 2
    /\ ~loffered[1].queued
    /\ loffered[2].queued
    /\ lqueue = {loffered[2].meta}

\* =====================================================================
\* Claim on concurrent Update calls
\* =====================================================================

\* C28: two concurrent Update calls never interleave: the mirror write, the
\* recipe append and the persistence of one call all happen before any
\* write of the other, or all after.
C28_UpdatesDoNotInterleave ==
    \A i, j, k \in 1..Len(ceffects) :
        (i < j /\ j < k /\ ceffects[i].call = ceffects[k].call)
            => ceffects[j].call = ceffects[i].call

\* two calls by two callers, the second at p.mtx.Lock() while the first held
\* the mutex, both finished
C28_Witness ==
    /\ ccontended
    /\ \A u \in ConcUpdaters : cpc[u] = "idle"
    /\ \E i, j \in 1..Len(ceffects) :
          /\ ceffects[i].by # ceffects[j].by
          /\ ceffects[i].kind = "disk"
          /\ ceffects[j].kind = "disk"

\* =====================================================================
\* Claims on TimeslicedReport
\* =====================================================================

\* C31: TimeslicedReport returns exactly one entry per live bucket, in
\* strictly increasing order of timeSlice, and leaves the set of live
\* buckets and every counter as they were.
C31_ReportListsLiveBucketsInOrder ==
    /\ [](treported =>
            /\ Len(treport) = Cardinality(LiveKeys)
            /\ {treport[i].timeSlice : i \in 1..Len(treport)} = LiveKeys
            /\ \A i, j \in 1..Len(treport) :
                  i < j => treport[i].timeSlice < treport[j].timeSlice)
    /\ [][(~treported /\ treported') =>
             /\ telemetryByTimeSlice' = telemetryByTimeSlice
             /\ globalLatencies' = globalLatencies
             /\ globalStatusCodes' = globalStatusCodes]_vars

\* a report of a full map whose buckets were created out of order
C31_Witness ==
    /\ treported
    /\ Len(treport) = MaxTimeSlices
    /\ Cardinality(recordedKeys) > MaxTimeSlices
    /\ MaxTimeSlices >= 2

\* ------------------------------------------------------------------
\* Claims on stats.LatencyStorage
\* ------------------------------------------------------------------

\* the last n values of a sequence
LastOf(s, n) == SubSeq(s, Len(s) - n + 1, Len(s))

\* C32: after any sequence of Add calls the slice stored for a name has
\* at most lastStoredLatencies values and is the last
\* min(total, lastStoredLatencies) values added for that name, in
\* arrival order; an Add for one name leaves the slices of the other
\* names as they were.
C32_StoredAreTheLastAdded ==
    /\ [](\A name \in MetricNames :
            /\ Len(storedLatencies[name]) <= lastStoredLatencies
            /\ storedLatencies[name] =
                  LastOf(addedLatencies[name],
                         Min(Len(addedLatencies[name]), lastStoredLatencies)))
    /\ [][\A name \in MetricNames :
             addedLatencies'[name] = addedLatencies[name]
                => storedLatencies'[name] = storedLatencies[name]]_vars

\* a name for which more than lastStoredLatencies values were added,
\* while another name holds values of its own
C32_Witness ==
    \E name, other \in MetricNames :
        /\ name # other
        /\ Len(addedLatencies[name]) > lastStoredLatencies
        /\ Len(storedLatencies[name]) = lastStoredLatencies
        /\ storedLatencies[other] # <<>>

\* ------------------------------------------------------------------
\* Claims on the latency middleware
\* ------------------------------------------------------------------

\* C33: for every request the middleware records one latency, after the
\* handler has completed, under the endpoint id the handler stored under
\* EndpointKey, and records none when the handler stored no integer id.
C33_OneLatencyAfterTheHandler ==
    /\ [](mpc = "returned" =>
            IF mkeys.type = "int"
               THEN /\ Len(mtracked) = 1
                    /\ mtracked[1].endpoint = mkeys.val
               ELSE mtracked = <<>>)
    /\ [][Len(mtracked') > Len(mtracked) => mhandled]_vars

\* a later request, whose handler stored an endpoint id and took some
\* time, has returned
C33_Witness ==
    /\ mpc = "returned"
    /\ mkeys.type = "int"
    /\ mtracked # <<>>
    /\ mtracked[1].latency > 0
    /\ mrequests > 1

\* ------------------------------------------------------------------
\* Claims on the gate around FlushImpressions
\* ------------------------------------------------------------------

\* C34: the Impressions gate is held exactly while one FlushImpressions
\* call is between its successful request and its return: a call that
\* acquired the gate has released it when it has returned, with nil or
\* with an error, a denied call has not released the gate of the call
\* that holds it, and the gate is free whenever no flush is between
\* request and return, so that the next flush acquires it.
C34_GateHeldExactlyDuringFlush ==
    /\ impressionsRunning <=> HoldsGate # {}
    /\ gateOwner # NoProc <=> HoldsGate = {gateOwner}
    /\ \A f \in FlushProcs :
          /\ (pc[f] = "done" /\ result[f] \in {"nil", "error"}) =>
                gateOwner # f
          /\ (pc[f] = "done" /\ result[f] = "busy") =>
                (blockedBy[f] \in HoldsGate => gateOwner = blockedBy[f])

\* a flush has returned an error and the other flush holds the gate
C34_Witness ==
    \E f, g \in FlushProcs :
        /\ f # g
        /\ pc[f] = "done" /\ result[f] = "error"
        /\ g \in HoldsGate /\ gateOwner = g

\* ------------------------------------------------------------------
\* Claims on the budget of FlushImpressions
\* ------------------------------------------------------------------

\* the least number of bulks of d that hold n
CeilDiv(n, d) == (n + d - 1) \div d

\* the flushes that acquired the gate and have not handed their result over
Flushing == {f \in FlushProcs : f \in HoldsGate \/ result[f] \in {"nil", "error"}}

\* C35: a FlushImpressions call with budget N (bulkSize, or MaxSizeToFlush
\* when bulkSize is 0) makes at most ceil(N / DefaultSize) drain passes,
\* asks each pass for at least one and at most min(remaining, DefaultSize)
\* impressions and pops at most N impressions, whatever the producers
\* enqueue meanwhile; it leaves the loop at once when the queue is empty
\* at the loop head and when a pass returns an error.
C35_FlushStaysWithinBudget ==
    /\ [](\A f \in Flushing :
            /\ flushSize[f] \in 1..MaxSizeToFlush
            /\ passes[f] <= CeilDiv(flushSize[f], DefaultSize)
            /\ Cardinality(popped[f]) <= flushSize[f]
            /\ pc[f] = "fetch" =>
                  /\ bulk[f] >= 1
                  /\ bulk[f] <= Min(flushSize[f] - (passes[f] - 1) * DefaultSize,
                                    DefaultSize)
            /\ result[f] = "error" => pc[f] \in {"finish", "done"})
    /\ [][\A f \in FlushProcs :
             /\ (pc[f] = "loop" /\ pc'[f] # "loop" /\ Len(queue) = 0) =>
                   pc'[f] = "finish" /\ result'[f] = "nil" /\ passes'[f] = passes[f]
             /\ (pc[f] = "fetch" /\ result'[f] = "error") =>
                   pc'[f] = "finish" /\ queue' = queue
             /\ passes'[f] > passes[f] =>
                   passes'[f] = passes[f] + 1 /\ pc'[f] = "fetch"]_vars

\* a flush has used its whole budget, in the greatest number of passes,
\* the last of them asking for less than DefaultSize
C35_Witness ==
    \E f \in FlushProcs :
        /\ pc[f] = "done" /\ result[f] = "nil"
        /\ passes[f] = CeilDiv(flushSize[f], DefaultSize)
        /\ passes[f] > 1
        /\ bulk[f] < DefaultSize
        /\ Cardinality(popped[f]) = flushSize[f]

\* ------------------------------------------------------------------
\* Claims on the delivery of impressions
\* ------------------------------------------------------------------

\* the impressions some call has popped and not yet handed to Record
HeldSomewhere == UNION {held[p] : p \in Procs}

\* C36: every impression is handed to Record in at most one batch, also
\* when the scheduled sync and a flush drain at the same time; a popped
\* impression is held by one call only and is never on the queue again;
\* an impression of a batch whose POST failed is neither queued nor held
\* again, so no later pass delivers it.
C36_DeliveredAtMostOnce ==
    /\ \A i \in DOMAIN handed :
          /\ handed[i] <= 1
          /\ handed[i] = 1 <=> i \in posted
    /\ \A i, j \in 1..Len(queue) : i # j => queue[i] # queue[j]
    /\ SeqToSet(queue) \cap (posted \cup HeldSomewhere) = {}
    /\ posted \cap HeldSomewhere = {}
    /\ \A p, q \in Procs : p # q => held[p] \cap held[q] = {}
    /\ failedPosts \subseteq posted

\* the scheduled sync and a flush hold impressions at the same time,
\* after a batch whose POST failed
C36_Witness ==
    \E s \in SyncProcs, f \in FlushProcs :
        /\ {s, f} \subseteq InDrain
        /\ held[s] # {} /\ held[f] # {}
        /\ failedPosts # {}

\* ------------------------------------------------------------------
\* Claims on KillLocally
\* ------------------------------------------------------------------

\* what the claim compares of a ChangesSince answer: its kind, its till and
\* the names of its splits
AnswerView(answer) ==
    [kind |-> answer.kind, till |-> answer.till, names |-> NamesOf(answer.splits)]

\* C37: a KillLocally call appends no recipe, writes nothing to the
\* persistent collection and leaves the storage change number as it was,
\* so that for every since >= 0 ChangesSince(since) answers with the same
\* till and the same split names before and after the call.
C37_KillLocallyLeavesChangesSince ==
    [][(calls' = calls + 1 /\ lastCall'.op = "KillLocally") =>
          /\ recipes' = recipes
          /\ recipeFloor' = recipeFloor
          /\ disk' = disk
          /\ snapshotTill' = snapshotTill
          /\ \A since \in 0..MaxCN :
                AnswerView(ChangesSinceOn(since, snapshotData', snapshotTill',
                                          recipes', recipeFloor'))
                   = AnswerView(ChangesSinceOn(since, snapshotData, snapshotTill,
                                               recipes, recipeFloor))]_vars

\* a KillLocally call has killed a split that an Update had stored with a
\* recipe, and ChangesSince(0) answers with that split
C37_Witness ==
    /\ lastCall.op = "KillLocally"
    /\ snapshotKilled # {}
    /\ recipes # <<>>
    /\ \E n \in snapshotKilled :
          /\ snapshotData[n].changeNumber > snapshotTill
          /\ n \in NamesOf(ChangesSinceOn(0, snapshotData, snapshotTill,
                                          recipes, recipeFloor).splits)

\* ------------------------------------------------------------------
\* Claims on the request count of a report entry
\* ------------------------------------------------------------------

\* C38: in every resource entry of a report, requestCount is the sum of
\* the values of the entry's statusCodes map, also when IncrEndpointStatus
\* runs while the report is built.
C38_RequestCountIsSumOfStatusCodes ==
    scpc = "done" =>
        scEntry.requestCount
            = SumCounts(scEntry.statusCodes, DOMAIN scEntry.statusCodes)

====
